---------------------------- MODULE Spec2Model ----------------------------
(***************************************************************************)
(* A model of the metric computation and fusion pipeline of the            *)
(* trustworthiness scorecard: the license classifier (license_compat.py),  *)
(* the capacity band scorer (HF_API_Integration.py), the size metric       *)
(* (hf_model_size.py) and the two batch orchestrators, handle_input_file   *)
(* (url_handler.py) and collect_and_write (collect_ndjson.py).             *)
(*                                                                         *)
(* Python values are tagged records [t |-> <type>, v |-> <payload>].       *)
(* An exception that leaves a function is the value Raise(kind); a         *)
(* try/except is a test on that tag.  Scores are fixed point: a float x    *)
(* is the integer 1000 * x (thousandths); _compat_from_capacity, whose     *)
(* six results are two-decimal literals, is kept in hundredths.            *)
(* Python strings are sequences of one-character strings; dictionary keys  *)
(* are TLA+ strings.                                                       *)
(***************************************************************************)
EXTENDS Integers, Sequences, FiniteSets, TLC

VARIABLES
    lic_op,     \* which license operation ran last: "none", "extract_license", "license_compat"
    lic_in,     \* its input: the metadata handed to extract_license / the registry response
    lic_out,    \* its result
    cap_in,     \* <<size_bytes, capacity_bytes>> handed to _compat_from_capacity
    cap_out,    \* its result, in hundredths (-1 before the first call)
    fn,         \* which other function was applied last ("none" before the first call)
    fn_in,      \* its arguments and the answers of the collaborators it called
    fn_out,     \* its result
    orch,       \* the batch call in progress: "none", "handle_input_file", "collect_and_write"
    pc,         \* its position
    todo,       \* number of input entries not yet taken from the input
    taken,      \* number of input entries taken so far
    entry,      \* the entry being processed: [code_url, dataset_url, model_url]
    loc,        \* the local variables of the current loop iteration
    calls,      \* the collaborator calls made for the current entry, in order
    results,    \* the records emitted so far (the results list / the NDJSON lines)
    escaped,    \* the exception that left the batch call, None if none did
    repos,      \* collect_and_write: the repos not yet analysed (what each one does)
    env,        \* the environment: LOG_LEVEL and LOG_FILE
    stdout,     \* the lines written to standard output, in order
    logfile     \* the lines appended to the file LOG_FILE names, in order

vars == <<lic_op, lic_in, lic_out, cap_in, cap_out, fn, fn_in, fn_out,
          orch, pc, todo, taken, entry, loc, calls, results, escaped,
          repos, env, stdout, logfile>>

ioVars == <<repos, env, stdout, logfile>>
batchVars == <<orch, pc, todo, taken, entry, loc, calls, results, escaped, ioVars>>

licVars == <<lic_op, lic_in, lic_out>>
capVars == <<cap_in, cap_out>>
fnVars == <<fn, fn_in, fn_out>>

----------------------------------------------------------------------------
(* Python values *)

None == [t |-> "None"]
Str(s) == [t |-> "str", v |-> s]
Num(n) == [t |-> "int", v |-> n]
List(q) == [t |-> "list", v |-> q]
Dict(f) == [t |-> "dict", v |-> f]
Raise(kind) == [t |-> "raise", v |-> kind]

IsRaise(x) == x.t = "raise"

\* bool(x) for the value kinds used here
Truthy(x) ==
    CASE x.t = "None" -> FALSE
      [] x.t = "str"  -> x.v /= <<>>
      [] x.t = "int"  -> x.v /= 0
      [] x.t = "float" -> x.v /= 0
      [] x.t = "list" -> Len(x.v) > 0
      [] x.t = "dict" -> DOMAIN x.v /= {}
      [] OTHER        -> TRUE

\* d.get(k): None when the key is missing; AttributeError when d is no dict
Get(d, k) ==
    IF d.t /= "dict" THEN Raise("AttributeError")
    ELSE IF k \in DOMAIN d.v THEN d.v[k] ELSE None

\* a dict literal with the keys of ks that have a value in f
NoKey == [t |-> "nokey"]
MkDict(ks, f) == Dict([k \in {x \in ks : f[x] /= NoKey} |-> f[k]])

\* a float, in thousandths
Flt(n) == [t |-> "float", v |-> n]

\* {**d, k: v} and d[k] = v
With(d, k, val) ==
    Dict([x \in DOMAIN d.v \cup {k} |-> IF x = k THEN val ELSE d.v[x]])

Has(d, k) == k \in DOMAIN d.v

EmptyDict == Dict(<<>>)

\* x if x is not None else default
OrElse(x, default) == IF x = None THEN default ELSE x

\* dict.get(k, default)
GetOr(d, k, default) == IF Has(d, k) THEN d.v[k] ELSE default

\* round half to even of num / den (den > 0, num >= 0), Python's round()
RoundDiv(num, den) ==
    LET q == num \div den
        r == num % den
    IN IF 2 * r < den THEN q
       ELSE IF 2 * r > den THEN q + 1
       ELSE IF q % 2 = 0 THEN q ELSE q + 1

\* float(x): a float of the same value, ValueError / TypeError otherwise.
\* The only numeric string of the model is "200".
S_200 == <<"2","0","0">>
ToFloat(x) ==
    CASE x.t = "float" -> x
      [] x.t = "int"   -> Flt(1000 * x.v)
      [] x.t = "str"   -> IF x.v = S_200 THEN Flt(200000) ELSE Raise("ValueError")
      [] OTHER         -> Raise("TypeError")

\* int(round(float(x)))
IntRound(x) ==
    LET f == ToFloat(x) IN
    IF IsRaise(f) THEN f ELSE Num(RoundDiv(f.v, 1000))

\* int(x): truncation of a float, the value of an int or a numeric string
ToInt(x) ==
    CASE x.t = "int"   -> x
      [] x.t = "float" -> Num(x.v \div 1000)
      [] x.t = "str"   -> IF x.v = S_200 THEN Num(200) ELSE Raise("ValueError")
      [] OTHER         -> Raise("TypeError")

\* round(x, 3) and round(x, 2) of a float held in thousandths
Round3(f) == f
Round2(f) == Flt(10 * RoundDiv(f.v, 10))

----------------------------------------------------------------------------
(* Strings as sequences of characters *)

HF_PREFIX == <<"h","t","t","p","s",":","/","/","h","u","g","g","i","n","g","f","a","c","e",".","c","o","/">>
HF_DATASETS_PREFIX == <<"h","t","t","p","s",":","/","/","h","u","g","g","i","n","g","f","a","c","e",".","c","o","/","d","a","t","a","s","e","t","s","/">>
HTTP == <<"h","t","t","p">>
S_main == <<"m","a","i","n">>
S_nonexistent == <<"n","o","n","e","x","i","s","t","e","n","t">>

\* the strings of the inputs and of the collaborators' answers
U_model == <<"o","/","m">>
U_model_url == <<"h","t","t","p","s",":","/","/","h","u","g","g","i","n","g","f","a","c","e",".","c","o","/","o","/","m">>
U_missing == <<"n","o","n","e","x","i","s","t","e","n","t","/","m">>
U_code == <<"h","t","t","p","s",":","/","/","g","i","t","h","u","b",".","c","o","m","/","o","/","r">>
U_squad == <<"h","t","t","p","s",":","/","/","h","u","g","g","i","n","g","f","a","c","e",".","c","o","/","d","a","t","a","s","e","t","s","/","s","q","u","a","d">>
U_NA == <<"N","/","A">>
U_other == <<"h","t","t","p","s",":","/","/","e","x","a","m","p","l","e",".","c","o","m","/","d">>
U_bare == <<"o","/","d">>
U_word == <<"s","q","u","a","d">>
U_found == <<"h","t","t","p","s",":","/","/","h","u","g","g","i","n","g","f","a","c","e",".","c","o","/","d","a","t","a","s","e","t","s","/","o","/","d">>

StartsWith(s, p) == Len(s) >= Len(p) /\ SubSeq(s, 1, Len(p)) = p

Contains(s, sub) ==
    \E i \in 1 .. (Len(s) - Len(sub) + 1) : SubSeq(s, i, i + Len(sub) - 1) = sub

UpperCase == <<"A","B","C","D","E","F","G","H","I","J","K","L","M","N","O","P","Q","R","S","T","U","V","W","X","Y","Z">>
LowerCase == <<"a","b","c","d","e","f","g","h","i","j","k","l","m","n","o","p","q","r","s","t","u","v","w","x","y","z">>

LowerChar(c) ==
    IF \E i \in DOMAIN UpperCase : UpperCase[i] = c
    THEN LowerCase[CHOOSE i \in DOMAIN UpperCase : UpperCase[i] = c]
    ELSE c

LowerStr(s) == [i \in DOMAIN s |-> LowerChar(s[i])]

RECURSIVE LStrip(_)
LStrip(s) == IF s /= <<>> /\ Head(s) = " " THEN LStrip(Tail(s)) ELSE s

RECURSIVE RStrip(_)
RStrip(s) ==
    IF s /= <<>> /\ s[Len(s)] = " " THEN RStrip(SubSeq(s, 1, Len(s) - 1)) ELSE s

Strip(s) == RStrip(LStrip(s))

\* s.split(ch): the pieces between the occurrences of ch, empty ones kept
RECURSIVE SplitFrom(_, _, _)
SplitFrom(s, ch, cur) ==
    IF s = <<>> THEN <<cur>>
    ELSE IF Head(s) = ch THEN <<cur>> \o SplitFrom(Tail(s), ch, <<>>)
    ELSE SplitFrom(Tail(s), ch, Append(cur, Head(s)))

Split(s, ch) == SplitFrom(s, ch, <<>>)

\* [p for p in parts if p]
NonEmptyParts(parts) == SelectSeq(parts, LAMBDA p : p /= <<>>)

----------------------------------------------------------------------------
(* license_compat.py *)

S_unknown == <<"u","n","k","n","o","w","n">>
S_error == <<"e","r","r","o","r">>
L_MIT == <<"M","I","T">>
L_Apache == <<"A","p","a","c","h","e","-","2",".","0">>
L_GPL3 == <<"G","P","L","-","3",".","0">>

COMPATIBLE_LICENSES ==
    { <<"m","i","t">>,
      <<"b","s","d","-","2","-","c","l","a","u","s","e">>,
      <<"b","s","d","-","3","-","c","l","a","u","s","e">>,
      <<"a","p","a","c","h","e","-","2",".","0">>,
      <<"i","s","c">>,
      <<"z","l","i","b">>,
      <<"m","p","l","-","2",".","0">>,
      <<"e","p","l","-","2",".","0">>,
      <<"c","d","d","l","-","1",".","0">>,
      <<"l","g","p","l","-","2",".","1">>,
      <<"l","g","p","l","-","2",".","1","-","o","r","-","l","a","t","e","r">>,
      <<"g","p","l","-","2",".","0">> }

extract_license(data) ==
    LET license_str == Get(data, "license") IN
    IF IsRaise(license_str) THEN license_str
    ELSE IF Truthy(license_str)
            /\ ~(license_str.t = "str" /\ license_str.v = S_unknown)
    THEN license_str
    ELSE LET card_data == Get(data, "cardData") IN
         IF ~Truthy(card_data) THEN Str(S_unknown)
         ELSE LET lic == Get(card_data, "license") IN
              IF IsRaise(lic) THEN lic
              ELSE IF lic.t = "str" THEN lic
              ELSE IF lic.t = "list" /\ Len(lic.v) > 0 THEN lic.v[1]
              ELSE Str(S_unknown)

is_lgpl_compatible(license_str) ==
    IF license_str.t /= "str" THEN Raise("AttributeError")
    ELSE IF LowerStr(license_str.v) \in COMPATIBLE_LICENSES THEN Num(1) ELSE Num(0)

\* the except clause of license_compat
LicenseError(model_id, e) ==
    Dict([k \in {"model_id", "license", "lgplv21_compat_score", "error"} |->
            CASE k = "model_id" -> Str(model_id)
              [] k = "license" -> Str(S_error)
              [] k = "lgplv21_compat_score" -> Num(0)
              [] OTHER -> Str(<<e>>)])

\* The try block of license_compat: requests.get, raise_for_status, json(),
\* extract_license, is_lgpl_compatible.  resp is what the registry does.
LicenseTry(model_id, resp) ==
    IF resp.kind \in {"ConnectionError", "Timeout"} THEN Raise(resp.kind)
    ELSE IF resp.kind = "HTTPError" THEN Raise("HTTPError")
    ELSE IF resp.kind = "bad_json" THEN Raise("ValueError")
    ELSE LET license_str == extract_license(resp.data) IN
         IF IsRaise(license_str) THEN license_str
         ELSE LET compat == is_lgpl_compatible(license_str) IN
              IF IsRaise(compat) THEN compat
              ELSE Dict([k \in {"model_id", "license", "lgplv21_compat_score"} |->
                          CASE k = "model_id" -> Str(model_id)
                            [] k = "license" -> license_str
                            [] OTHER -> compat])

\* a plausible slip: only the requests exceptions are caught
license_compat_narrow(model_id, resp) ==
    LET r == LicenseTry(model_id, resp) IN
    IF IsRaise(r) /\ r.v \in {"ConnectionError", "Timeout", "HTTPError"}
    THEN LicenseError(model_id, r.v) ELSE r

license_compat(model_id, resp) ==
    LET r == LicenseTry(model_id, resp) IN
    IF IsRaise(r) THEN LicenseError(model_id, r.v) ELSE r

----------------------------------------------------------------------------
(* HF_API_Integration.py: the capacity bands *)

\* ratio <= 0.25 is 4 s <= C, and so on: the thresholds are exact in binary
\* floating point and the division rounds monotonically.
\* a plausible slip: the first band edge is exclusive
compat_from_capacity_strict(size_bytes, capacity_bytes) ==
    IF size_bytes <= 0 THEN 0
    ELSE IF capacity_bytes <= 0 THEN 0
    ELSE IF 4 * size_bytes < capacity_bytes THEN 100
    ELSE IF 2 * size_bytes <= capacity_bytes THEN 85
    ELSE IF size_bytes <= capacity_bytes THEN 70
    ELSE IF size_bytes <= 2 * capacity_bytes THEN 40
    ELSE IF size_bytes <= 4 * capacity_bytes THEN 20
    ELSE 0

compat_from_capacity(size_bytes, capacity_bytes) ==
    IF size_bytes <= 0 THEN 0
    ELSE IF capacity_bytes <= 0 THEN 0
    ELSE IF 4 * size_bytes <= capacity_bytes THEN 100
    ELSE IF 2 * size_bytes <= capacity_bytes THEN 85
    ELSE IF size_bytes <= capacity_bytes THEN 70
    ELSE IF size_bytes <= 2 * capacity_bytes THEN 40
    ELSE IF size_bytes <= 4 * capacity_bytes THEN 20
    ELSE 0

\* _compute_size_score.  Sizes and capacities are in units of 1,000,000
\* bytes: the capacities are whole multiples of it and the bands compare
\* ratios, which the unit leaves alone.  round(x, 2) of a band value is the
\* value itself, so the scores stay in hundredths.
capacities ==
    [raspberry_pi |-> 200, jetson_nano |-> 1000,
     desktop_pc |-> 8000, aws_server |-> 20000]

compute_size_score(size_bytes) ==
    [k \in DOMAIN capacities |-> compat_from_capacity(size_bytes, capacities[k])]

----------------------------------------------------------------------------
(* HF_API_Integration.py: the registry helpers *)

\* s.lstrip(",")
RECURSIVE LStripComma(_)
LStripComma(s) == IF s /= <<>> /\ Head(s) = "," THEN LStripComma(Tail(s)) ELSE s

\* the common body of _extract_dataset_id and _extract_model_id
ExtractId(id_or_url, prefix) ==
    LET s == LStripComma(Strip(id_or_url)) IN
    IF StartsWith(s, prefix)
    THEN LET parts == NonEmptyParts(Split(SubSeq(s, Len(prefix) + 1, Len(s)), "/"))
         IN IF Len(parts) >= 2 THEN parts[1] \o <<"/">> \o parts[2]
            ELSE IF Len(parts) = 1 THEN parts[1]
            ELSE s
    ELSE s

hf_extract_dataset_id(dataset_id_or_url) == ExtractId(dataset_id_or_url, HF_DATASETS_PREFIX)
hf_extract_model_id(model_id_or_url) == ExtractId(model_id_or_url, HF_PREFIX)

\* fetch_model_metrics, as far as its caller reads it: the dict carries
\* model_id (the counts, their normalisations and the latency are not read
\* by collect_and_write and are left out).  reachable tells whether
\* get_huggingface_model_metadata got an answer.
fetch_model_metrics(model_id, reachable) ==
    LET mid == hf_extract_model_id(model_id) IN
    IF ~reachable /\ Contains(LowerStr(mid), S_nonexistent) THEN None
    ELSE Dict([k \in {"model_id"} |-> Str(mid)])

\* fetch_model_card_text: the text of the first README that answers, else ""
fetch_model_card_text(model_id_or_url, text) == text

\* t.split(":", 1)[1]
RECURSIVE AfterFirst(_, _)
AfterFirst(s, ch) ==
    IF s = <<>> THEN <<>>
    ELSE IF Head(s) = ch THEN Tail(s) ELSE AfterFirst(Tail(s), ch)

S_dataset_colon == <<"d","a","t","a","s","e","t",":">>

\* the candidates of cardData.datasets, in order
CardCandidates(card) ==
    IF card.t /= "dict" THEN <<>>
    ELSE LET ds_list == Get(card, "datasets") IN
         IF ds_list.t = "list"
         THEN LET ok == SelectSeq(ds_list.v,
                                  LAMBDA v : v.t = "str" /\ Strip(v.v) /= <<>>)
              IN [i \in DOMAIN ok |-> Strip(ok[i].v)]
         ELSE IF ds_list.t = "str" /\ Strip(ds_list.v) /= <<>>
         THEN <<Strip(ds_list.v)>>
         ELSE <<>>

\* the candidates of the "dataset:" tags, in order
TagCandidates(tags) ==
    IF tags.t /= "list" THEN <<>>
    ELSE LET ok == SelectSeq(tags.v,
                      LAMBDA t : /\ t.t = "str"
                                 /\ StartsWith(LowerStr(t.v), S_dataset_colon)
                                 /\ Strip(AfterFirst(t.v, ":")) /= <<>>)
         IN [i \in DOMAIN ok |-> Strip(AfterFirst(ok[i].v, ":"))]

\* discover_hf_dataset_url_for_model: reg is what the registry answers
discover_hf_dataset_url_for_model(model_id_or_url, reg) ==
    IF reg.kind /= "ok" THEN <<>>
    ELSE IF reg.data.t /= "dict" THEN <<>>
    ELSE LET card0 == Get(reg.data, "cardData")
             card == IF Truthy(card0) THEN card0 ELSE EmptyDict
             from_card == CardCandidates(card)
             ds_candidates ==
                 IF from_card /= <<>> THEN from_card
                 ELSE TagCandidates(GetOr(reg.data, "tags", List(<<>>)))
         IN IF ds_candidates = <<>> THEN <<>>
            ELSE LET ds == ds_candidates[1] IN
                 IF ~StartsWith(ds, HTTP) THEN HF_DATASETS_PREFIX \o ds
                 ELSE IF StartsWith(ds, HF_DATASETS_PREFIX) THEN ds
                 ELSE <<>>

\* The six sub-scores of fetch_dataset_quality, in thousandths
score_tags(tags) ==
    IF tags.t /= "list" THEN 0
    ELSE LET n == Len(SelectSeq(tags.v, Truthy)) IN
         IF n >= 5 THEN 1000 ELSE IF n >= 3 THEN 800 ELSE IF n >= 1 THEN 500 ELSE 0

\* in units of 1/2000: min(1, L / 2000) is min(2000, L) / 2000
score_description(desc) ==
    IF ~Truthy(desc) THEN 0
    ELSE IF Len(desc.v) > 2000 THEN 2000 ELSE Len(desc.v)

score_license(license_val) ==
    IF ~Truthy(license_val) THEN 0
    ELSE IF license_val.t = "str" THEN (IF Strip(license_val.v) /= <<>> THEN 1000 ELSE 0)
    ELSE IF license_val.t = "dict"
    THEN (IF \E k \in DOMAIN license_val.v : Truthy(license_val.v[k]) THEN 1000 ELSE 0)
    ELSE 500

score_schema(data) ==
    LET card0 == Get(data, "cardData")
        card == IF Truthy(card0) THEN card0 ELSE EmptyDict
    IN IF card.t = "dict" /\ (Has(card, "features") \/ Has(card, "dataset_info"))
       THEN 1000
       ELSE IF Truthy(Get(data, "configs")) THEN 500 ELSE 0

score_completeness(data) ==
    200 * Cardinality({k \in {"cardData", "tags", "license", "downloads", "siblings"} :
                          Truthy(Get(data, k))})

score_downloads(d) ==
    LET n == ToInt(d) IN
    IF IsRaise(n) THEN 0
    ELSE IF n.v >= 10000 THEN 1000
    ELSE IF n.v >= 1000 THEN 800
    ELSE IF n.v >= 100 THEN 500
    ELSE IF n.v > 0 THEN 200
    ELSE 0

\* the except clause of fetch_dataset_quality
QualityError(ds_id) ==
    Dict([k \in {"dataset_id", "error"} |->
            IF k = "dataset_id" THEN Str(ds_id) ELSE Str(<<"e">>)])

\* fetch_dataset_quality: reg is what the registry answers, latency the
\* measured time in ms.  The weighted sum is held in units of 10^-5.
fetch_dataset_quality(dataset_id_or_url, reg, latency) ==
    LET ds_id == hf_extract_dataset_id(dataset_id_or_url) IN
    IF reg.kind /= "ok" THEN QualityError(ds_id)
    ELSE IF reg.data.t /= "dict" THEN QualityError(ds_id)
    ELSE LET data == reg.data
             card0 == Get(data, "cardData")
             card == IF Truthy(card0) THEN card0 ELSE EmptyDict
             d1 == IF card.t /= "dict" THEN Str(<<>>)
                   ELSE IF Truthy(Get(card, "description")) THEN Get(card, "description")
                   ELSE IF Truthy(Get(card, "overview")) THEN Get(card, "overview")
                   ELSE Str(<<>>)
             description == IF Truthy(d1) THEN d1
                            ELSE IF Truthy(Get(data, "description"))
                            THEN Get(data, "description")
                            ELSE Str(<<>>)
             tags == GetOr(data, "tags", List(<<>>))
             license_val == IF Truthy(Get(data, "license")) THEN Get(data, "license")
                            ELSE IF card.t = "dict" THEN Get(card, "license") ELSE None
             downloads == GetOr(data, "downloads", Num(0))
             quality == 30 * score_completeness(data)
                        + 20 * score_schema(data)
                        + 15 * score_tags(tags)
                        + 15 * score_license(license_val)
                        + 5 * score_description(description)
                        + 10 * score_downloads(downloads)
         IN IF description.t /= "str" THEN QualityError(ds_id)
            ELSE Dict([k \in {"dataset_id", "dataset_quality", "dataset_quality_latency"} |->
                    CASE k = "dataset_id" -> Str(ds_id)
                      [] k = "dataset_quality" -> Flt(10 * RoundDiv(quality, 1000))
                      [] OTHER -> Num(latency)])

----------------------------------------------------------------------------
(* hf_model_size.py.  Sizes and capacities are in MiB. *)

Devices == {"raspberry_pi", "jetson_nano", "desktop_pc", "aws_server"}

HARDWARE_CONSTRAINTS ==
    [d \in Devices |->
        CASE d = "raspberry_pi" -> 512
          [] d = "jetson_nano"  -> 4 * 1024
          [] d = "desktop_pc"   -> 16 * 1024
          [] OTHER              -> 64 * 1024]

CANONICAL_CONSTRAINTS ==
    [d \in Devices |->
        CASE d = "raspberry_pi" -> 1 * 1024
          [] d = "jetson_nano"  -> 4 * 1024
          [] d = "desktop_pc"   -> 16 * 1024
          [] OTHER              -> 32 * 1024]

\* The two return statements of get_model_file_sizes: the listing summed to
\* total (one file, when there is anything to list), or the fetch error.
ModelInfo(model_id, size) ==
    IF size.kind = "error"
    THEN Dict([k \in {"model_id", "error"} |->
                 IF k = "model_id" THEN Str(model_id) ELSE Str(<<"e">>)])
    ELSE Dict([k \in {"model_id", "total_size_bytes", "files"} |->
                 CASE k = "model_id" -> Str(model_id)
                   [] k = "total_size_bytes" -> Num(size.total)
                   [] OTHER -> IF size.total = 0 THEN List(<<>>)
                               ELSE List(<<Dict([f \in {"filename", "size"} |->
                                        IF f = "filename" THEN Str(<<"w">>)
                                        ELSE Num(size.total)])>>)])

\* ratio = total / capacity; 1 - ratio when ratio <= 1, else 0; round(, 3)
FitScore(total_size, capacity) ==
    IF capacity = 0 THEN Flt(1000)
    ELSE IF total_size <= capacity
    THEN Flt(RoundDiv(1000 * (capacity - total_size), capacity))
    ELSE Flt(0)

MaxOf(S) == CHOOSE x \in S : \A y \in S : y <= x

calculate_size_metric(model_info) ==
    IF Has(model_info, "error") THEN With(model_info, "size_metric", Flt(0))
    ELSE LET total_size == IF Has(model_info, "total_size_bytes")
                           THEN model_info.v["total_size_bytes"].v ELSE 0
         IN IF total_size = 0 THEN With(model_info, "size_metric", Flt(0))
            ELSE LET size_score == Dict([d \in Devices |->
                                     FitScore(total_size, CANONICAL_CONSTRAINTS[d])])
                     size_metric == MaxOf({size_score.v[d].v : d \in Devices})
                 IN With(With(With(model_info, "size_score", size_score),
                              "size_score_latency", Num(0)),
                         "size_metric", Round3(Flt(size_metric)))

----------------------------------------------------------------------------
(* hf_model_size.py: get_model_file_sizes.  Sizes are in bytes. *)

Digits == <<"0","1","2","3","4","5","6","7","8","9">>
IsDigit(c) == \E i \in DOMAIN Digits : Digits[i] = c
DigitVal(c) == (CHOOSE i \in DOMAIN Digits : Digits[i] = c) - 1

RECURSIVE DigitsVal(_)
DigitsVal(s) ==
    IF s = <<>> THEN 0
    ELSE 10 * DigitsVal(SubSeq(s, 1, Len(s) - 1)) + DigitVal(s[Len(s)])

RECURSIVE Pow(_, _)
Pow(b, n) == IF n = 0 THEN 1 ELSE b * Pow(b, n - 1)

\* float(s) of a string: the fraction num / den of an unsigned decimal
\* literal, ValueError for everything else (signs, exponents and blanks do
\* not occur in the inputs)
ParseFloat(s) ==
    LET parts == Split(s, ".")
        digs == IF Len(parts) = 2 THEN parts[1] \o parts[2] ELSE parts[1]
    IN IF Len(parts) > 2 \/ digs = <<>> \/ \E i \in DOMAIN digs : ~IsDigit(digs[i])
       THEN Raise("ValueError")
       ELSE [t |-> "fraction", num |-> DigitsVal(digs),
             den |-> Pow(10, IF Len(parts) = 2 THEN Len(parts[2]) ELSE 0)]

\* s.strip('()')
RECURSIVE StripParens(_)
StripParens(s) ==
    IF s /= <<>> /\ Head(s) \in {"(", ")"} THEN StripParens(Tail(s))
    ELSE IF s /= <<>> /\ s[Len(s)] \in {"(", ")"}
    THEN StripParens(SubSeq(s, 1, Len(s) - 1))
    ELSE s

\* size_map.get(unit, 1)
size_map(unit) ==
    CASE unit = <<"B">>     -> 1
      [] unit = <<"K","B">> -> 1024
      [] unit = <<"M","B">> -> 1024 * 1024
      [] unit = <<"G","B">> -> 1024 * 1024 * 1024
      [] OTHER              -> 1

\* the body of the loop over lfs_lines: the entry one line adds to
\* lfs_sizes, NoKey when it adds none
LfsEntry(line) ==
    LET parts == NonEmptyParts(Split(Strip(line), " ")) IN
    IF Len(parts) <= 3 THEN NoKey
    ELSE LET size_str == parts[Len(parts) - 1]
             unit == StripParens(parts[Len(parts)])
             size_val == ParseFloat(size_str)
         IN IF size_str = <<>> \/ unit = <<>> \/ IsRaise(size_val) THEN NoKey
            ELSE [t |-> "entry", fname_lfs |-> parts[3],
                  size_bytes |-> (size_val.num * size_map(unit)) \div size_val.den]

\* lfs_sizes[fname]: the entry of the last line that names fname
lfs_sizes(lfs_lines, fname) ==
    LET hits == {i \in DOMAIN lfs_lines :
                    /\ LfsEntry(lfs_lines[i]) /= NoKey
                    /\ LfsEntry(lfs_lines[i]).fname_lfs = fname}
    IN IF hits = {} THEN NoKey
       ELSE Num(LfsEntry(lfs_lines[CHOOSE i \in hits : \A j \in hits : j <= i]).size_bytes)

\* the loop over siblings: fsize after the HEAD probe.  head is the
\* Content-Length the probe finds, None when it fails or finds none.
ProbedSize(file, head) ==
    LET fsize == GetOr(file, "size", Num(0)) IN
    IF ~Truthy(fsize) /\ Truthy(Get(file, "rfilename")) /\ head /= None
    THEN head ELSE fsize

RECURSIVE SumSizes(_)
SumSizes(files) ==
    IF files = <<>> THEN 0
    ELSE (IF Head(files).size.t = "int" THEN Head(files).size.v ELSE 0)
         + SumSizes(Tail(files))

\* the same without line 73: the sizes of the LFS listing reach the files and
\* not the total
get_model_file_sizes_listing_total(model_id, reg, head, lfs) ==
    IF IsRaise(reg)
    THEN Dict([k \in {"model_id", "error"} |->
                 IF k = "model_id" THEN Str(model_id) ELSE Str(<<reg.v>>)])
    ELSE LET siblings == reg.v
             file_details ==
                 [i \in DOMAIN siblings |->
                    [filename |-> Get(siblings[i], "rfilename"),
                     size |-> ProbedSize(siblings[i], head)]]
             missing_files ==
                 {i \in DOMAIN siblings : /\ ~Truthy(file_details[i].size)
                                          /\ Truthy(file_details[i].filename)}
             from_lfs ==
                 [i \in DOMAIN siblings |->
                    IF /\ missing_files /= {}
                       /\ ~IsRaise(lfs)
                       /\ file_details[i].filename.t = "str"
                       /\ lfs_sizes(lfs.v, file_details[i].filename.v) /= NoKey
                       /\ ~Truthy(file_details[i].size)
                    THEN [size |-> lfs_sizes(lfs.v, file_details[i].filename.v)]
                    ELSE [size |-> NoKey]]
             updated ==
                 [i \in DOMAIN siblings |->
                    IF from_lfs[i].size /= NoKey
                    THEN [file_details[i] EXCEPT !.size = from_lfs[i].size]
                    ELSE file_details[i]]
             total_size == SumSizes(file_details)
         IN Dict([k \in {"model_id", "total_size_bytes", "files"} |->
                    CASE k = "model_id" -> Str(model_id)
                      [] k = "total_size_bytes" -> Num(total_size)
                      [] OTHER -> List(updated)])

\* reg is the registry's answer (the siblings, or the exception of the
\* request), lfs the output lines of git lfs ls-files -s (or the exception
\* of the clone or of the listing).
get_model_file_sizes(model_id, reg, head, lfs) ==
    IF IsRaise(reg)
    THEN Dict([k \in {"model_id", "error"} |->
                 IF k = "model_id" THEN Str(model_id) ELSE Str(<<reg.v>>)])
    ELSE LET siblings == reg.v
             file_details ==
                 [i \in DOMAIN siblings |->
                    [filename |-> Get(siblings[i], "rfilename"),
                     size |-> ProbedSize(siblings[i], head)]]
             missing_files ==
                 {i \in DOMAIN siblings : /\ ~Truthy(file_details[i].size)
                                          /\ Truthy(file_details[i].filename)}
             from_lfs ==
                 [i \in DOMAIN siblings |->
                    IF /\ missing_files /= {}
                       /\ ~IsRaise(lfs)
                       /\ file_details[i].filename.t = "str"
                       /\ lfs_sizes(lfs.v, file_details[i].filename.v) /= NoKey
                       /\ ~Truthy(file_details[i].size)
                    THEN [size |-> lfs_sizes(lfs.v, file_details[i].filename.v)]
                    ELSE [size |-> NoKey]]
             updated ==
                 [i \in DOMAIN siblings |->
                    IF from_lfs[i].size /= NoKey
                    THEN [file_details[i] EXCEPT !.size = from_lfs[i].size]
                    ELSE file_details[i]]
             total_size == SumSizes(file_details) + SumSizes(from_lfs)
         IN Dict([k \in {"model_id", "total_size_bytes", "files"} |->
                    CASE k = "model_id" -> Str(model_id)
                      [] k = "total_size_bytes" -> Num(total_size)
                      [] OTHER -> List(updated)])

\* line 29: the HEAD request is made for a file whose listed size is absent,
\* null or zero and whose name is not empty
HeadProbedAlways(file) ==
    Truthy(Get(file, "rfilename"))

HeadProbed(file) ==
    /\ ~Truthy(GetOr(file, "size", Num(0)))
    /\ Truthy(Get(file, "rfilename"))

\* lines 38-39: the files appended to missing_files, by their position
MissingFiles(siblings, head) ==
    {i \in DOMAIN siblings : /\ ~Truthy(ProbedSize(siblings[i], head))
                             /\ Truthy(Get(siblings[i], "rfilename"))}

\* The whole call with the requests it makes.  git is what the fallback of
\* lines 44-78 meets: mkdtemp, clone and rmtree succeed or raise, lfs is the
\* output of git lfs ls-files -s or its exception.  An exception of rmtree
\* leaves the finally clause and reaches the handler of line 84.
get_model_file_sizes_run(model_id, reg, head, git) ==
    LET fallback == ~IsRaise(reg) /\ MissingFiles(reg.v, head) /= {}
        repo_dir == fallback /\ git.mkdtemp
        lfs == IF repo_dir /\ git.clone THEN git.lfs ELSE Raise("CalledProcessError")
        rmtree_raised == repo_dir /\ ~git.rmtree
    IN [result |->
            IF rmtree_raised
            THEN Dict([k \in {"model_id", "error"} |->
                         IF k = "model_id" THEN Str(model_id) ELSE Str(<<"OSError">>)])
            ELSE get_model_file_sizes(model_id, reg, head, lfs),
        head_requests |->
            IF IsRaise(reg) THEN {} ELSE {i \in DOMAIN reg.v : HeadProbed(reg.v[i])},
        clone |-> repo_dir,
        lfs_listing |-> repo_dir /\ git.clone,
        temp_dirs |-> IF rmtree_raised THEN {"repo_dir"} ELSE {}]

----------------------------------------------------------------------------
(* analyze_repo.py *)

\* the names the module binds at its top level by import (lines 2-5)
analyze_repo_imports == {"os", "subprocess", "Repo", "math"}

\* compatible_licenses of is_lgpl_compatible (analyze_repo.py)
compatible_licenses ==
    { <<"L","G","P","L","-","2",".","1">>,
      <<"L","G","P","L","-","2",".","1","-","o","n","l","y">>,
      <<"L","G","P","L","-","2",".","1","-","o","r","-","l","a","t","e","r">>,
      <<"G","P","L","-","2",".","0">>,
      <<"G","P","L","-","2",".","0","-","o","r","-","l","a","t","e","r">>,
      <<"M","I","T">>,
      <<"M","I","T","/","X","1","1">>,
      <<"B","S","D">>,
      <<"B","S","D","-","2","-","C","l","a","u","s","e">>,
      <<"B","S","D","-","3","-","C","l","a","u","s","e">> }

\* is_lgpl_compatible of analyze_repo.py: membership in a list of ten
\* identifiers, compared as they are written
analyze_repo_is_lgpl_compatible(license_str) ==
    IF license_str.t = "str" /\ license_str.v \in compatible_licenses
    THEN Num(1) ELSE Num(0)

\* compute_code_quality.  python_files is the number of .py files os.walk
\* finds, linter what running flake8 would do.  The body of the try reads
\* shutil.which before anything is run; shutil (like sys) is imported nowhere
\* at the top level of the module, so the lookup raises NameError, and the
\* call of subprocess.run that follows names no command (TypeError).  The
\* except clause turns either into 0.5; the lines after the call, which
\* compute the score from the linter's output, are never reached.
compute_code_quality(python_files, linter) ==
    LET tried == IF "shutil" \notin analyze_repo_imports THEN Raise("NameError")
                 ELSE Raise("TypeError")
    IN IF IsRaise(tried) THEN Flt(500) ELSE tried

\* compute_size_metric: min(1.0, size_mb / max_capacity_mb) for the weight
\* files of the repository, weight_mb MiB in all, against 16 * 1024 MiB
compute_size_metric(weight_mb) ==
    LET normalized == (1000 * weight_mb) \div (16 * 1024)
    IN Flt(IF normalized > 1000 THEN 1000 ELSE normalized)

TAB == "tab"

\* int(parts[0].strip().split()[0]) for one line of git shortlog -sne
ContribCount(parts) ==
    LET words == NonEmptyParts(Split(Strip(parts[1]), " ")) IN
    IF words = <<>> THEN Raise("IndexError")
    ELSE IF \E i \in DOMAIN words[1] : ~IsDigit(words[1][i]) THEN Raise("ValueError")
    ELSE Num(DigitsVal(words[1]))

\* entropy / max_entropy of the commit shares, in thousandths, for the
\* counts of the model (3 and 5 commits, two or three contributors)
BusEntropy(contrib_counts) ==
    LET n3 == Cardinality({i \in DOMAIN contrib_counts : contrib_counts[i] = 3})
        n5 == Cardinality({i \in DOMAIN contrib_counts : contrib_counts[i] = 5})
    IN CASE n3 = 0 \/ n5 = 0     -> 1000
         [] n3 = 1 /\ n5 = 1     -> 954
         [] n3 = 1 /\ n5 = 2     -> 977
         [] n3 = 2 /\ n5 = 1     -> 971

\* the try block of compute_local_metrics: history is the output of git
\* shortlog (its lines), or the exception of the call
BusFactorTry(history) ==
    IF IsRaise(history) THEN history
    ELSE LET contrib_lines == history.v
             parts(i) == Split(Strip(contrib_lines[i]), TAB)
             counted == {i \in DOMAIN contrib_lines : Len(parts(i)) >= 2}
             bad == {i \in counted : IsRaise(ContribCount(parts(i)))}
             contrib_counts ==
                 SelectSeq([i \in DOMAIN contrib_lines |->
                               IF i \in counted THEN ContribCount(parts(i)).v ELSE -1],
                           LAMBDA c : c >= 0)
             total_commits == SumSizes([i \in DOMAIN contrib_counts |->
                                          [size |-> Num(contrib_counts[i])]])
         IN IF bad /= {}
            THEN ContribCount(parts(CHOOSE i \in bad : \A j \in bad : i <= j))
            ELSE IF total_commits > 0 /\ Len(contrib_counts) > 1
            THEN (IF \E i \in DOMAIN contrib_counts : contrib_counts[i] = 0
                  THEN Raise("ValueError")
                  ELSE Flt(BusEntropy(contrib_counts)))
            ELSE Flt(0)

\* a plausible slip: the history is read outside the try
compute_local_metrics_unguarded(history, license_str, weight_mb, python_files, linter) ==
    IF IsRaise(BusFactorTry(history)) THEN BusFactorTry(history)
    ELSE Dict([k \in {"bus_factor", "code_quality", "license", "size"} |->
                CASE k = "bus_factor" -> BusFactorTry(history)
                  [] k = "code_quality" -> compute_code_quality(python_files, linter)
                  [] k = "license" ->
                        (IF Truthy(license_str)
                         THEN analyze_repo_is_lgpl_compatible(license_str) ELSE Num(0))
                  [] OTHER -> compute_size_metric(weight_mb)])

compute_local_metrics(history, license_str, weight_mb, python_files, linter) ==
    LET tried == BusFactorTry(history)
        bus_factor == IF IsRaise(tried) THEN Flt(0) ELSE tried
    IN Dict([k \in {"bus_factor", "code_quality", "license", "size"} |->
                CASE k = "bus_factor" -> bus_factor
                  [] k = "code_quality" -> compute_code_quality(python_files, linter)
                  [] k = "license" ->
                        (IF Truthy(license_str)
                         THEN analyze_repo_is_lgpl_compatible(license_str) ELSE Num(0))
                  [] OTHER -> compute_size_metric(weight_mb)])

\* What compute_code_quality prints: the count of Python files (line 36)
\* before shutil is looked up, and the message of the except clause (line 62).
compute_code_quality_prints(python_files, linter) ==
    <<"Found Python files", "Error running flake8">>

\* extract_license (lines 150-187): the detected type, and the content of the
\* license file, which is printed (line 169).  license_file is the type its
\* text names, empty when the repository has no license file.
S_Unknown == <<"U","n","k","n","o","w","n">>
repo_extract_license(license_file) ==
    IF license_file = <<>> THEN [type |-> S_Unknown, stdout |-> <<>>]
    ELSE [type |-> license_file, stdout |-> <<"license text">>]

\* analyze_repo.  r is what the repository and the machine do: whether
\* tempfile.mkdtemp succeeds, whether repo_url is a local path, whether the
\* clone succeeds, the license the GitHub API names, the license file, the
\* git history, and whether shutil.rmtree manages to remove the directory
\* (with ignore_errors=True a failure is silent).  The result is what the
\* function returns or raises, what it prints, and the temporary directories
\* it leaves behind.
analyze_repo(r) ==
    IF ~r.mkdtemp
    THEN [result |-> Raise("OSError"), stdout |-> <<>>, temp_dirs |-> {}]
    ELSE
    LET left == IF r.rmtree THEN {} ELSE {"temp_dir"}
        default_metrics ==
            [k \in {"bus_factor", "size", "code_quality", "license", "lgpl_compatible"} |->
                CASE k = "license" -> Str(S_Unknown)
                  [] k = "lgpl_compatible" -> [t |-> "bool", v |-> FALSE]
                  [] OTHER -> Flt(0)]
        from_file == repo_extract_license(r.license_file)
        \* the API is asked about a https://github.com/ URL only
        api == IF r.local THEN S_Unknown ELSE r.api_license
        license_type == IF api /= S_Unknown THEN api ELSE from_file.type
        metrics == compute_local_metrics(r.history, Str(license_type), 0, 1,
                                         [kind |-> "start_failed"])
        repo_info ==
            [k \in {"repo", "license", "lgpl_compatible"} |->
                CASE k = "repo" -> (IF r.local THEN List(<<Str(<<".">>)>>)
                                    ELSE List(<<Str(<<"o">>), Str(<<"r">>)>>))
                  [] k = "license" -> Str(license_type)
                  [] OTHER -> [t |-> "bool", v |-> license_type \in compatible_licenses]]
    IN IF ~r.local /\ ~r.clone
       THEN [result |-> Dict([k \in DOMAIN default_metrics \cup {"repo", "error"} |->
                                CASE k = "repo" -> List(<<Str(U_code)>>)
                                  [] k = "error" -> Str(<<"I","n","v","a","l","i","d">>)
                                  [] OTHER -> default_metrics[k]]),
             stdout |-> <<>>, temp_dirs |-> left]
       ELSE [result |-> Dict([k \in DOMAIN repo_info \cup DOMAIN metrics.v |->
                                IF k \in DOMAIN metrics.v THEN metrics.v[k]
                                ELSE repo_info[k]]),
             stdout |-> (IF api = S_Unknown THEN from_file.stdout ELSE <<>>)
                        \o compute_code_quality_prints(1, [kind |-> "start_failed"]),
             temp_dirs |-> left]

\* analyze_repo of the module analyze_repo.py that stands beside the src
\* directory: the clone is not guarded, nothing is printed, and the
\* temporary directory is removed in a finally clause as well.
root_analyze_repo(r) ==
    IF ~r.mkdtemp
    THEN [result |-> Raise("OSError"), stdout |-> <<>>, temp_dirs |-> {}]
    ELSE LET left == IF r.rmtree THEN {} ELSE {"temp_dir"}
             license_type == IF r.api_license /= S_Unknown THEN r.api_license
                             ELSE repo_extract_license(r.license_file).type
         IN IF ~r.clone
            THEN [result |-> Raise("GitCommandError"), stdout |-> <<>>, temp_dirs |-> left]
            ELSE [result |->
                     Dict([k \in {"repo", "license", "total_files", "python_files",
                                  "lgpl_compatible"} |->
                             CASE k = "repo" -> List(<<Str(<<"o">>), Str(<<"r">>)>>)
                               [] k = "license" -> Str(license_type)
                               [] k = "lgpl_compatible" ->
                                     [t |-> "bool",
                                      v |-> license_type \in
                                              {c \in compatible_licenses :
                                                  StartsWith(c, <<"L","G","P","L">>)}]
                               [] OTHER -> Num(1)]),
                  stdout |-> <<>>, temp_dirs |-> left]

----------------------------------------------------------------------------
(* genai_readme_analysis.py *)

MetricNames ==
    {"ramp_up_time", "performance_claims", "bus_factor", "dataset_quality",
     "code_quality", "dataset_and_code_score", "size_score"}

\* key + "_latency"
LatencyKey(k) == k \o "_latency"

\* key.endswith("_latency"), on the keys of the model
IsLatencyKey(k) ==
    k \in {LatencyKey(m) : m \in MetricNames} \cup {"dataset_discovery_latency"}

\* The text of an LLM message is a sequence of lexical units: the two
\* braces, a member of an object, a whole array, a word of prose, and the
\* two fences.  Only the braces and the fences matter to the two regular
\* expressions of _parse_llm_content_to_json, only the braces, members and
\* arrays to json.loads.  FENCE_JSON is three backquotes, json and a newline,
\* FENCE three backquotes.
LBRACE == "{"
RBRACE == "}"
MEMBER == "ramp_up_time: 0.6"
ARRAY == "[1, 2]"
PROSE == "word"
FENCE_JSON == "fence json"
FENCE == "fence"

\* json.loads(raw): an object of members, an array, or a JSONDecodeError
json_loads(raw) ==
    IF /\ Len(raw) >= 2 /\ raw[1] = LBRACE /\ raw[Len(raw)] = RBRACE
       /\ \A i \in 2 .. Len(raw) - 1 : raw[i] = MEMBER
    THEN (IF Len(raw) = 2 THEN EmptyDict
          ELSE Dict([k \in {"ramp_up_time"} |-> Flt(600)]))
    ELSE IF raw = <<ARRAY>> THEN List(<<Num(1), Num(2)>>)
    ELSE Raise("JSONDecodeError")

\* The first re.search, for a json fence, anything (as little as possible)
\* and a closing fence: group 1 of the leftmost match, NoKey without one.
\* The three backquotes of the closing fence also match the first three
\* characters of a later json fence.
FencedBlock(content) ==
    LET closes(o) == {c \in DOMAIN content : c > o /\ content[c] \in {FENCE, FENCE_JSON}}
        opens == {o \in DOMAIN content : content[o] = FENCE_JSON /\ closes(o) /= {}}
    IN IF opens = {} THEN NoKey
       ELSE LET o == CHOOSE x \in opens : \A y \in opens : x <= y
                c == CHOOSE x \in closes(o) : \A y \in closes(o) : x <= y
            IN Str(SubSeq(content, o + 1, c - 1))

\* re.search(r"\{[\s\S]*\}$", content.strip()): group 0, from the first
\* opening brace to the closing brace that ends the text
BraceBlock(content) ==
    LET s == Strip(content)
        opens == {i \in DOMAIN s : s[i] = LBRACE}
    IN IF s = <<>> \/ s[Len(s)] /= RBRACE \/ opens = {} THEN NoKey
       ELSE Str(SubSeq(s, CHOOSE x \in opens : \A y \in opens : x <= y, Len(s)))

\* _parse_llm_content_to_json; re.search raises TypeError when content is
\* no string
parse_llm_content_to_json(content) ==
    IF content.t /= "str" THEN Raise("TypeError")
    ELSE LET match == FencedBlock(content.v)
             raw == IF match /= NoKey THEN match ELSE BraceBlock(content.v)
         IN IF raw = NoKey \/ ~Truthy(raw) THEN EmptyDict
            ELSE LET parsed == json_loads(raw.v)
                 IN IF IsRaise(parsed) THEN EmptyDict ELSE parsed

\* one pass of the loop of _flatten_metrics for a value that is no dict
FlattenPlain(key, val) ==
    IF IsLatencyKey(key)
    THEN LET r == IntRound(val) IN IF IsRaise(r) THEN val ELSE r
    ELSE LET f == ToFloat(val) IN IF IsRaise(f) THEN val ELSE f

\* The keys a {"score": .., "latency": ..} value contributes
NestedScoreOk(val) ==
    /\ Get(val, "score") /= None
    /\ ~IsRaise(ToFloat(Get(val, "score")))
NestedLatencyOk(val) ==
    /\ Get(val, "latency") /= None
    /\ ~IsRaise(IntRound(Get(val, "latency")))

\* _flatten_metrics; m.items() raises AttributeError when m is no dict.  No
\* input of the model names one key twice (as "x_latency" and inside a nested
\* "x"), so the order of the loop does not show.
flatten_metrics(m) ==
    IF m.t /= "dict" THEN Raise("AttributeError") ELSE
    LET plain == {k \in DOMAIN m.v : m.v[k].t /= "dict"}
        nested == DOMAIN m.v \ plain
        keys == plain
                \cup {k \in nested : NestedScoreOk(m.v[k])}
                \cup {LatencyKey(k) : k \in {x \in nested : NestedLatencyOk(m.v[x])}}
    IN Dict([k \in keys |->
            IF k \in plain THEN FlattenPlain(k, m.v[k])
            ELSE IF k \in nested THEN ToFloat(Get(m.v[k], "score"))
            ELSE LET src == CHOOSE x \in nested : LatencyKey(x) = k
                 IN IntRound(Get(m.v[src], "latency"))])

\* analyze_metrics: llm is what the evaluator's transport does.  A transport
\* failure (requests.post, raise_for_status) leaves analyze_with_genai and
\* analyze_metrics; a response without choices or without the content key
\* gives {}; llm.content is the content of the message, and llm.parsed (kind
\* "ok") stands for a content that _parse_llm_content_to_json turns into
\* that value.
analyze_metrics(llm) ==
    IF llm.kind = "error" THEN Raise("HTTPError")
    ELSE IF llm.kind = "no_content" THEN EmptyDict
    ELSE LET parsed == IF llm.kind = "ok" THEN llm.parsed
                       ELSE parse_llm_content_to_json(llm.content)
         IN IF IsRaise(parsed) THEN parsed
            ELSE IF ~Truthy(parsed) THEN EmptyDict
            ELSE flatten_metrics(parsed)

\* discover_dataset_url_with_genai: llm is what the evaluator's transport does
discover_dataset_url_with_genai(llm) ==
    IF llm.kind = "error" THEN Raise("HTTPError")
    ELSE IF llm.kind = "no_content" THEN EmptyDict
    ELSE IF llm.parsed.t /= "dict" THEN EmptyDict
    ELSE LET raw == Get(llm.parsed, "dataset_url")
             ds == IF Truthy(raw) /\ raw.t = "str" THEN Strip(raw.v) ELSE <<>>
             lat == IntRound(GetOr(llm.parsed, "dataset_discovery_latency", Num(0)))
         IN MkDict({"dataset_url", "dataset_discovery_latency"},
                   [k \in {"dataset_url", "dataset_discovery_latency"} |->
                       IF k = "dataset_url"
                       THEN (IF ds /= <<>> THEN Str(ds) ELSE NoKey)
                       ELSE (IF IsRaise(lat) THEN NoKey ELSE lat)])

----------------------------------------------------------------------------
(* url_handler.py *)

Join2(a, b) == a \o <<"/">> \o b

extract_model_id(url_or_id) ==
    LET s == Strip(url_or_id) IN
    IF StartsWith(s, HF_PREFIX)
    THEN LET path == SubSeq(s, Len(HF_PREFIX) + 1, Len(s))
             parts == NonEmptyParts(Split(path, "/"))
         IN IF Len(parts) >= 2 THEN Join2(parts[1], parts[2])
            ELSE IF Len(parts) = 1 THEN parts[1]
            ELSE s
    ELSE s

extract_model_name(url) ==
    LET s == Strip(url) IN
    IF StartsWith(s, HF_PREFIX)
    THEN LET parts == NonEmptyParts(Split(SubSeq(s, Len(HF_PREFIX) + 1, Len(s)), "/"))
         IN IF Len(parts) >= 2 THEN parts[2]
            ELSE IF Len(parts) = 1 THEN parts[1]
            ELSE s
    ELSE LET parts == Split(s, "/")
         IN IF LowerStr(parts[Len(parts)]) = S_main /\ Len(parts) > 1
            THEN parts[Len(parts) - 1]
            ELSE parts[Len(parts)]

\* ",".join(parts)
RECURSIVE JoinComma(_)
JoinComma(parts) ==
    IF parts = <<>> THEN <<>>
    ELSE IF Len(parts) = 1 THEN parts[1]
    ELSE parts[1] \o <<",">> \o JoinComma(Tail(parts))

\* parse_triple: the tuple (code, dataset, model) of one line
parse_triple(line) ==
    LET split == Split(line, ",")
        parts == [i \in DOMAIN split |-> Strip(split[i])]
    IN IF Len(parts) = 1 THEN << <<>>, <<>>, parts[1] >>
       ELSE IF Len(parts) < 3 THEN <<parts[1], parts[2], <<>> >>
       ELSE IF Len(parts) > 3
            THEN <<parts[1], parts[2], Strip(JoinComma(SubSeq(parts, 3, Len(parts))))>>
       ELSE <<parts[1], parts[2], parts[3]>>

\* {"none", "null", "na", "n/a", "-"}
Placeholders ==
    { <<"n","o","n","e">>, <<"n","u","l","l">>, <<"n","a">>, <<"n","/","a">>, <<"-">> }

is_placeholder_or_non_hf_dataset(url) ==
    IF url = <<>> THEN TRUE
    ELSE LET s == Strip(url) IN
         IF LowerStr(s) \in Placeholders THEN TRUE
         ELSE IF ~StartsWith(s, HF_DATASETS_PREFIX) THEN TRUE
         ELSE FALSE

\* hf.get_license_info: the classifier of the spec (4.2), {license, compatible}
\* with its latency in seconds; it never raises.  latency is in milliseconds,
\* so float(latency) * 1000 is Flt(latency) seen as a number of ms.
get_license_info(model_id, resp, latency) ==
    With(license_compat(model_id, resp), "license_latency", Flt(latency))

\* lines 130-186: the size stage.  size is what get_model_file_sizes meets.
HifSizeStage(model_id, size, latency) ==
    IF model_id = <<>> THEN [size_score |-> None, size_score_latency |-> 0]
    ELSE LET model_info == ModelInfo(model_id, size)
             size_calc == calculate_size_metric(model_info)
             size_score ==
                 IF Get(size_calc, "size_score").t = "dict"
                 THEN Get(size_calc, "size_score")
                 ELSE IF Has(size_calc, "size_metric")
                 THEN LET sm == Get(size_calc, "size_metric")
                          scalar == ToFloat(IF Truthy(sm) THEN sm ELSE Flt(0))
                      IN Dict([d \in DOMAIN HARDWARE_CONSTRAINTS |-> Round3(scalar)])
                 ELSE LET total_size ==
                              IF Has(model_info, "total_size_bytes")
                              THEN model_info.v["total_size_bytes"].v ELSE 0
                      IN Dict([d \in DOMAIN HARDWARE_CONSTRAINTS |->
                                 IF HARDWARE_CONSTRAINTS[d] = 0 THEN Flt(1000)
                                 ELSE FitScore(total_size, HARDWARE_CONSTRAINTS[d])])
         IN [size_score |-> size_score, size_score_latency |-> latency]

\* lines 197-202: the size score of hf_model_size enters the metrics
HifAdoptSize(metrics, size_score, size_score_latency) ==
    LET m1 == IF Get(metrics, "size_score").t /= "dict" /\ size_score.t = "dict"
              THEN With(metrics, "size_score", size_score) ELSE metrics
    IN IF ~Truthy(Get(m1, "size_score_latency"))
       THEN With(m1, "size_score_latency", Num(size_score_latency)) ELSE m1

S_MODEL == <<"M","O","D","E","L">>

\* lines 233-246 and 261-262: the keys the record has before the loop over
\* the remaining metrics
RecKeys ==
    {"name", "category", "license", "license_latency", "bus_factor",
     "bus_factor_latency", "dataset_quality", "dataset_quality_latency",
     "code_quality", "code_quality_latency", "dataset_and_code_score",
     "dataset_and_code_score_latency", "size_score", "size_score_latency"}

\* lines 204-274: the record of one entry, or the exception a conversion raises
HifRecord(e, l) ==
    LET metrics == l.metrics
        linked == e.code_url /= <<>> \/ e.dataset_url /= <<>>
        dq0 == OrElse(Get(metrics, "dataset_quality"), Flt(0))
        cq == OrElse(Get(metrics, "code_quality"), Flt(0))
        dql0 == OrElse(Get(metrics, "dataset_quality_latency"), Num(0))
        cql0 == OrElse(Get(metrics, "code_quality_latency"), Num(0))
        dq == IF IsRaise(ToFloat(dq0)) THEN dq0 ELSE Round3(ToFloat(dq0))
        bfl == IF Has(metrics, "bus_factor_latency")
               THEN IntRound(GetOr(metrics, "bus_factor_latency", Num(0))) ELSE None
        dql == IntRound(dql0)
        cql == IntRound(cql0)
        ss0 == Get(metrics, "size_score")
        devs == [d \in Devices |->
                    LET x == GetOr(metrics, d, Flt(0))
                    IN ToFloat(IF Truthy(x) THEN x ELSE Flt(0))]
        ss == IF ss0.t = "dict" THEN ss0 ELSE Dict(devs)
        ssl0 == IntRound(GetOr(metrics, "size_score_latency", Num(0)))
        ssl == IF IsRaise(ssl0) THEN Num(0) ELSE ssl0
        rest == DOMAIN metrics.v \ RecKeys
        raised == {x \in {bfl, dql, cql} : IsRaise(x)}
                  \cup (IF ss0.t = "dict" THEN {}
                        ELSE {devs[d] : d \in {x \in Devices : IsRaise(devs[x])}})
    IN IF raised /= {} THEN CHOOSE x \in raised : TRUE
       ELSE Dict([k \in RecKeys \cup rest |->
               CASE k = "name" -> Str(l.name)
                 [] k = "category" -> Str(S_MODEL)
                 [] k = "license" -> IF Truthy(l.compat_score) THEN Num(1) ELSE Num(0)
                 [] k = "license_latency" -> Num(l.license_latency)
                 [] k = "bus_factor" -> Get(metrics, "bus_factor")
                 [] k = "bus_factor_latency" -> bfl
                 [] k = "dataset_quality" -> dq
                 [] k = "dataset_quality_latency" -> dql
                 [] k = "code_quality" -> cq
                 [] k = "code_quality_latency" -> cql
                 [] k = "dataset_and_code_score" -> IF linked THEN Flt(1000) ELSE Flt(0)
                 [] k = "dataset_and_code_score_latency" -> Num(1)
                 [] k = "size_score" -> ss
                 [] k = "size_score_latency" -> ssl
                 [] OTHER -> IF IsLatencyKey(k) /\ ~IsRaise(IntRound(metrics.v[k]))
                             THEN IntRound(metrics.v[k]) ELSE metrics.v[k]])

----------------------------------------------------------------------------
(* collect_ndjson.py: main *)

\* log: the lines the call appends to the file LOG_FILE names.  int() of
\* LOG_LEVEL ("0" when unset) falls back to 0 when it raises; nothing is
\* written when the level is too low or LOG_FILE is unset or empty; an open
\* or write that raises is swallowed.  Nothing goes to standard output and
\* nothing is raised.
log(message, level, e) ==
    LET raw == IF e.LOG_LEVEL = NoKey THEN <<"0">> ELSE e.LOG_LEVEL.v
        log_level == IF raw /= <<>> /\ \A i \in DOMAIN raw : IsDigit(raw[i])
                     THEN DigitsVal(raw) ELSE 0
    IN IF log_level < level THEN <<>>
       ELSE IF e.LOG_FILE = "unset" THEN <<>>
       ELSE IF e.LOG_FILE = "unwritable" THEN <<>>
       ELSE <<message>>

\* _analyze_repo_fn: importlib.import_module("analyze_repo") finds the module
\* that comes first on sys.path.  collect_ndjson.py puts its own directory
\* and then the directory above it at the front (lines 36-41), each only if
\* it is not on the path yet, so which of the two modules named
\* analyze_repo.py is loaded depends on how the program was started
\* (r.module).
analyze_repo_fn(r) ==
    IF r.module = "src/analyze_repo.py" THEN root_analyze_repo(r) ELSE analyze_repo(r)

\* several calls of log in a row, each a pair <<message, level>>
RECURSIVE LogAll(_, _)
LogAll(msgs, e) ==
    IF msgs = <<>> THEN <<>>
    ELSE log(Head(msgs)[1], Head(msgs)[2], e) \o LogAll(Tail(msgs), e)

\* LOG_LEVEL and LOG_FILE unset
SilentEnv == [LOG_LEVEL |-> NoKey, LOG_FILE |-> "unset"]

\* read_lines_file: f is the file at the path (its lines), or the exception
\* open raises
read_lines_file(f) ==
    IF IsRaise(f) THEN f
    ELSE List(SelectSeq([i \in DOMAIN f.v |-> Strip(f.v[i])],
                        LAMBDA s : s /= <<>> /\ Head(s) /= "#"))

\* main.  repo and model are the --repo and --model options, repos_file and
\* models_file the files of --repos-file and --models-file (None when the
\* option is absent), url_handler tells whether that module can be imported,
\* hif is what handle_input_file does with the models file.  collect_and_write
\* returns 0 (line 298).
main(repo, model, repos_file, models_file, url_handler, hif) ==
    LET from_file == IF repos_file = None THEN List(<<>>)
                     ELSE read_lines_file(repos_file)
        records == IF IsRaise(hif) THEN <<>> ELSE hif.v
        written == Len(records)     \* written to stdout and logged, not returned
    IN IF IsRaise(from_file) THEN from_file
       ELSE IF models_file /= None
       THEN (IF url_handler = "imported" THEN Num(0) ELSE Num(1))
       ELSE IF repo \o from_file.v = <<>> /\ model = <<>> THEN Num(2)
       ELSE Num(0)

----------------------------------------------------------------------------
(* Inputs of the pure functions *)

MaxSize == 17       \* sizes -1 .. MaxSize
MaxCapacity == 4    \* capacities -1 .. MaxCapacity

ModelIds == {U_model, U_missing}

TopLicenses ==
    { NoKey, None, Str(<<>>), Str(S_unknown), Str(L_MIT), Str(L_GPL3) }

CardLicenses ==
    { NoKey, None, Str(<<>>), Str(L_Apache), Str(S_unknown),
      List(<<>>), List(<<Str(L_Apache), Str(L_MIT)>>),
      List(<<Str(L_MIT), Str(L_Apache)>>), List(<<None>>) }

CardDatas ==
    { NoKey, None, Str(<<"c">>) }
    \cup { MkDict({"license", "other_field"},
                  [k \in {"license", "other_field"} |->
                      IF k = "license" THEN l ELSE o]) :
           l \in CardLicenses, o \in {NoKey, Str(<<"v">>)} }

\* registry metadata as parsed from the response body
Metadatas ==
    { MkDict({"license", "cardData"},
             [k \in {"license", "cardData"} |->
                 IF k = "license" THEN l ELSE c]) :
      l \in TopLicenses, c \in CardDatas }

\* what requests.get / raise_for_status / json() can do
Responses ==
    { [kind |-> k] : k \in {"ConnectionError", "Timeout", "HTTPError", "bad_json"} }
    \cup { [kind |-> "ok", data |-> d] : d \in Metadatas \cup {List(<<>>), None} }

\* get_model_file_sizes: the registry listing, the HEAD probe and the
\* git-lfs listing
S_model_bin == <<"m","o","d","e","l",".","b","i","n">>
S_config_json == <<"c","o","n","f","i","g",".","j","s","o","n">>

Sibling(rfilename, size) ==
    MkDict({"rfilename", "size"}, [rfilename |-> Str(rfilename), size |-> size])

SiblingLists ==
    { <<Sibling(S_model_bin, Num(0)), Sibling(S_config_json, Num(500))>>,
      <<Sibling(S_model_bin, NoKey)>>,
      <<Sibling(S_model_bin, None), Sibling(S_model_bin, Num(500))>>,
      <<Sibling(S_config_json, Num(500))>>,
      <<>> }

\* the sizes and units git-lfs prints: the text, and the number it denotes
LfsAmounts ==
    { [text |-> <<"2","5","0">>, num |-> 250, den |-> 1, unit |-> <<"M","B">>, k |-> 2],
      [text |-> <<"1","0","0">>, num |-> 100, den |-> 1, unit |-> <<"B">>, k |-> 0],
      [text |-> <<"0",".","5">>, num |-> 5, den |-> 10, unit |-> <<"K","B">>, k |-> 1],
      [text |-> <<"1">>, num |-> 1, den |-> 1, unit |-> <<"G","B">>, k |-> 3] }

\* a line of the listing: "lfs" is the format git-lfs prints,
\* <hash> - <filename> (<size> <unit>), "bare" the same without the
\* parentheses, "short" a line that ends after the file name
LfsLineSpecs ==
    [fname : {S_model_bin}, amount : LfsAmounts, format : {"lfs", "bare"}]
    \cup [fname : {S_config_json}, amount : {CHOOSE a \in LfsAmounts : a.k = 0},
          format : {"lfs", "short"}]

LfsText(l) ==
    <<"a","b","c","1","2","3"," ","-"," ">> \o l.fname
    \o (CASE l.format = "lfs" ->
                <<" ","(">> \o l.amount.text \o <<" ">> \o l.amount.unit \o <<")">>
          [] l.format = "bare" ->
                <<" ">> \o l.amount.text \o <<" ">> \o l.amount.unit
          [] OTHER -> <<>>)

MaxLines == 2       \* lines of the git-lfs listing

RECURSIVE SeqsUpTo(_, _)
SeqsUpTo(S, n) ==
    IF n = 0 THEN {<<>>}
    ELSE SeqsUpTo(S, n - 1)
         \cup {Append(q, x) : q \in {r \in SeqsUpTo(S, n - 1) : Len(r) = n - 1}, x \in S}

LfsOutcomes == {Raise("CalledProcessError")} \cup {List(q) : q \in SeqsUpTo(LfsLineSpecs, MaxLines)}
RegOutcomes == {Raise("HTTPError")} \cup {List(q) : q \in SiblingLists}
HeadOutcomes == {None, Num(300)}

\* what the git-lfs fallback meets: mkdtemp fails, the clone fails, or the
\* listing gives an outcome; rmtree removes the directory or raises
GitOutcomes ==
    {[mkdtemp |-> FALSE, clone |-> FALSE, lfs |-> Raise("CalledProcessError"),
      rmtree |-> TRUE]}
    \cup {[mkdtemp |-> TRUE, clone |-> FALSE, lfs |-> Raise("CalledProcessError"),
           rmtree |-> r] : r \in BOOLEAN}
    \cup {[mkdtemp |-> TRUE, clone |-> TRUE, lfs |-> l, rmtree |-> r] :
            l \in LfsOutcomes, r \in BOOLEAN}

\* the texts an LLM message can hold, the responses of the evaluator, and
\* the objects handed to _flatten_metrics
MaxTokens == 4      \* lexical units of an LLM message

Contents ==
    SeqsUpTo({LBRACE, RBRACE, MEMBER, ARRAY, PROSE, FENCE_JSON, FENCE}, MaxTokens)

LlmResponses ==
    { [kind |-> "error"], [kind |-> "no_content"] }
    \cup { [kind |-> "content", content |-> c] :
             c \in {None, Num(5)} \cup {Str(q) : q \in Contents} }

S_fast == <<"f","a","s","t">>

NestedMetric(score, latency) ==
    Dict([k \in {"score", "latency"} |-> IF k = "score" THEN score ELSE latency])

FlattenInputs ==
    { MkDict({"ramp_up_time", "ramp_up_time_latency", "performance_claims", "note"},
             [ramp_up_time |-> a, ramp_up_time_latency |-> b,
              performance_claims |-> c, note |-> d]) :
        a \in {NoKey, Flt(700), Str(S_200), Str(S_fast), None},
        b \in {NoKey, Num(150), Flt(100700), Num(-5), Str(S_fast), None},
        c \in {NoKey, Flt(600), NestedMetric(Flt(600), Num(100)),
               NestedMetric(Str(S_fast), None)},
        d \in {NoKey, Flt(500)} }

\* compute_code_quality and compute_local_metrics: the repository and what
\* the linter and git do
Linters ==
    { [kind |-> "start_failed"] }
    \cup [kind : {"ran"}, returncode : {0, 1}, issues : {0, 2, 200}]

\* a line of git shortlog -sne: the count as printed, and whether a tab
\* separates it from the name
HistoryLines ==
    [count : {<<"5">>, <<"3">>, <<"0">>, <<"x">>}, tab : {TRUE}]
    \cup [count : {<<"5">>}, tab : {FALSE}]

HistoryText(l) ==
    <<" "," ">> \o l.count \o (IF l.tab THEN <<TAB>> ELSE <<" ">>) \o <<"A","l","i","c","e">>

MaxContributors == 2    \* lines of git shortlog

Histories ==
    {Raise("CalledProcessError")}
    \cup {List(q) : q \in SeqsUpTo(HistoryLines, MaxContributors)}

\* main: the files the options can name
Files ==
    { None, Raise("FileNotFoundError"), List(<<>>),
      List(<< <<"#"," ","m","o","d","e","l","s">>, <<>> >>),
      List(<< <<"#"," ","m","o","d","e","l","s">>, U_model >>) }

----------------------------------------------------------------------------
(* Inputs of the batch calls *)

MaxBatch == 2       \* input entries per batch call: 0 .. MaxBatch

\* measured latencies, in milliseconds
Latencies == {0, 7}

\* a dict literal from a sequence of <<key, value>> pairs
DictOf(pairs) ==
    Dict([k \in {pairs[i][1] : i \in DOMAIN pairs} |->
            pairs[CHOOSE i \in DOMAIN pairs : pairs[i][1] = k][2]])

\* the JSON objects the evaluator answers with
J_full ==
    DictOf(<< <<"ramp_up_time", Flt(800)>>,
              <<"ramp_up_time_latency", Flt(100700)>>,
              <<"performance_claims", Flt(700)>>,
              <<"performance_claims_latency", Str(S_200)>>,
              <<"bus_factor", Flt(500)>>,
              <<"bus_factor_latency", Num(10)>>,
              <<"dataset_quality", Flt(854)>>,
              <<"dataset_quality_latency", Num(30)>>,
              <<"code_quality", Flt(600)>>,
              <<"code_quality_latency", Num(20)>> >>)

J_partial ==
    DictOf(<< <<"ramp_up_time", Flt(800)>>,
              <<"dataset_and_code_score", Flt(900)>>,
              <<"raspberry_pi", Flt(500)>> >>)

J_bad ==
    DictOf(<< <<"dataset_quality", Flt(700)>>,
              <<"dataset_quality_latency", Str(S_fast)>> >>)

\* what the evaluator's transport does
LlmOutcomes ==
    { [kind |-> "error"], [kind |-> "no_content"] }
    \cup { [kind |-> "ok", parsed |-> j] : j \in {EmptyDict, J_full, J_partial, J_bad} }

\* what get_model_file_sizes meets: a fetch error, or a listing of that total
SizeOutcomes ==
    { [kind |-> "error"] } \cup { [kind |-> "ok", total |-> n] : n \in {0, 512} }

\* what the registry answers to the license fetch of a batch entry
MetaOf(license) == Dict([k \in {"license"} |-> Str(license)])

\* with the latency the classifier reports, in milliseconds
HifResponses ==
    { [kind |-> "ok", data |-> MetaOf(L_MIT), latency |-> 7],
      [kind |-> "ConnectionError", latency |-> 0] }

Triple(c, d, m) == [code_url |-> c, dataset_url |-> d, model_url |-> m]

\* the triples read_url_file yields
HifEntries ==
    { Triple(<<>>, <<>>, U_model),
      Triple(U_code, U_squad, U_model_url),
      Triple(<<>>, U_NA, <<>>) }

\* what discover_dataset_url_with_genai's transport does
J_found == DictOf(<< <<"dataset_url", Str(U_found)>>,
                     <<"dataset_discovery_latency", Num(150)>> >>)
J_url(u) == DictOf(<< <<"dataset_url", Str(u)>> >>)

DiscoveryOutcomes ==
    { [kind |-> "error"], [kind |-> "no_content"] }
    \cup { [kind |-> "ok", parsed |-> j] :
           j \in {J_found, J_url(U_bare), J_url(U_word), J_url(U_other),
                 J_url(<<>>), List(<<>>)} }

\* what the registry answers about a model (discover_hf_dataset_url_for_model)
T_squad == <<"d","a","t","a","s","e","t",":","s","q","u","a","d">>
T_en == <<"e","n">>

ModelAnswers ==
    { [kind |-> "error"],
      [kind |-> "ok", data |-> EmptyDict],
      [kind |-> "ok", data |->
          DictOf(<< <<"cardData", DictOf(<< <<"datasets", List(<<Str(U_bare)>>)>> >>)>>,
                    <<"tags", List(<<Str(T_squad)>>)>> >>)],
      [kind |-> "ok", data |->
          DictOf(<< <<"cardData", DictOf(<< <<"datasets", Str(U_other)>> >>)>> >>)],
      [kind |-> "ok", data |->
          DictOf(<< <<"tags", List(<<Str(T_en), Str(T_squad)>>)>> >>)] }

\* what the registry answers about a dataset (fetch_dataset_quality)
D_rich ==
    DictOf(<< <<"cardData", DictOf(<< <<"features", List(<<Str(<<"f">>)>>)>>,
                                      <<"description", Str(<<"d","e","s","c">>)>>,
                                      <<"license", Str(<<"m","i","t">>)>> >>)>>,
              <<"tags", List(<<Str(T_en), Str(T_en), Str(T_en), Str(T_en), Str(T_en)>>)>>,
              <<"downloads", Num(20000)>>,
              <<"siblings", List(<<Str(<<"s">>)>>)>> >>)

DatasetAnswers ==
    { [kind |-> "error"], [kind |-> "ok", data |-> D_rich],
      [kind |-> "ok", data |-> EmptyDict] }

ReadmeTexts == { <<>>, <<"#">> }

\* the entries of the models list: bare strings and 3-tuples
CawEntries ==
    { Triple(<<>>, <<>>, U_model),
      Triple(U_code, U_squad, U_model_url),
      Triple(<<>>, U_NA, U_missing),
      Triple(<<>>, U_other, U_model) }

NoEntry == Triple(<<>>, <<>>, <<>>)

----------------------------------------------------------------------------
(* handle_input_file (url_handler.py) *)

HifFresh ==
    [model_id |-> <<>>, name |-> <<>>, compat_score |-> None, license_latency |-> 0,
     size_score |-> None, size_score_latency |-> 0, metrics |-> None]

InitIdleBatch ==
    /\ orch = "none"
    /\ pc = "idle"
    /\ todo = 0
    /\ taken = 0
    /\ entry = NoEntry
    /\ loc = HifFresh
    /\ calls = <<>>
    /\ results = <<>>
    /\ escaped = None
    /\ repos = <<>>
    /\ env = SilentEnv
    /\ stdout = <<>>
    /\ logfile = <<>>

InitHif ==
    /\ orch = "handle_input_file"
    /\ pc = "next"
    /\ todo \in 0 .. MaxBatch
    /\ taken = 0
    /\ entry = NoEntry
    /\ loc = HifFresh
    /\ calls = <<>>
    /\ results = <<>>
    /\ escaped = None
    /\ repos = <<>>
    /\ env = SilentEnv
    /\ stdout = <<>>
    /\ logfile = <<>>

\* line 89: the loop takes the next triple (lines 90-92 strip it)
HifNextEntry ==
    /\ orch = "handle_input_file" /\ pc = "next" /\ todo > 0
    /\ \E e \in HifEntries :
          entry' = Triple(Strip(e.code_url), Strip(e.dataset_url), Strip(e.model_url))
    /\ todo' = todo - 1
    /\ taken' = taken + 1
    /\ loc' = HifFresh
    /\ calls' = <<>>
    /\ pc' = "license"
    /\ UNCHANGED <<ioVars, orch, results, escaped, licVars, capVars, fnVars>>

\* lines 97-124: model id, license, name
HifLicense ==
    /\ orch = "handle_input_file" /\ pc = "license"
    /\ \E resp \in HifResponses :
          LET model_id == extract_model_id(entry.model_url)
              license_info == get_license_info(model_id, resp, resp.latency)
              raw == GetOr(license_info, "license_latency", Num(0))
              ms == IF IsRaise(ToFloat(raw)) THEN 0 ELSE RoundDiv(ToFloat(raw).v, 1)
          IN loc' = [loc EXCEPT !.model_id = model_id,
                                !.compat_score = GetOr(license_info, "lgplv21_compat_score", Num(0)),
                                !.license_latency = ms,
                                !.name = extract_model_name(entry.model_url)]
    /\ calls' = Append(calls, "get_license_info")
    /\ pc' = "size"
    /\ UNCHANGED <<ioVars, orch, todo, taken, entry, results, escaped, licVars, capVars, fnVars>>

\* lines 126-186: the size stage
HifSize ==
    /\ orch = "handle_input_file" /\ pc = "size"
    /\ \E size \in SizeOutcomes, latency \in Latencies :
          LET r == HifSizeStage(loc.model_id, size, latency)
          IN loc' = [loc EXCEPT !.size_score = r.size_score,
                                !.size_score_latency = r.size_score_latency]
    /\ calls' = IF loc.model_id = <<>> THEN calls
                ELSE calls \o <<"get_model_file_sizes", "calculate_size_metric">>
    /\ pc' = "metrics"
    /\ UNCHANGED <<ioVars, orch, todo, taken, entry, results, escaped, licVars, capVars, fnVars>>

\* lines 188-202: the evaluator's metrics; its exception is not caught
HifMetrics ==
    /\ orch = "handle_input_file" /\ pc = "metrics"
    /\ calls' = Append(calls, "analyze_metrics")
    /\ \E llm \in LlmOutcomes :
          LET m == analyze_metrics(llm) IN
          IF IsRaise(m)
          THEN /\ escaped' = m
               /\ pc' = "raised"
               /\ loc' = loc
          ELSE /\ loc' = [loc EXCEPT !.metrics =
                            HifAdoptSize(IF Truthy(m) THEN m ELSE EmptyDict,
                                         loc.size_score, loc.size_score_latency)]
               /\ pc' = "merge"
               /\ escaped' = escaped
    /\ UNCHANGED <<ioVars, orch, todo, taken, entry, results, licVars, capVars, fnVars>>

\* lines 204-274: the record is built and appended
HifMerge ==
    /\ orch = "handle_input_file" /\ pc = "merge"
    /\ LET rec == HifRecord(entry, loc) IN
       IF IsRaise(rec)
       THEN /\ escaped' = rec
            /\ pc' = "raised"
            /\ results' = results
       ELSE /\ results' = Append(results, rec)
            /\ pc' = "next"
            /\ escaped' = escaped
    /\ UNCHANGED <<ioVars, orch, todo, taken, entry, loc, calls, licVars, capVars, fnVars>>

\* line 275
HifReturn ==
    /\ orch = "handle_input_file" /\ pc = "next" /\ todo = 0
    /\ pc' = "returned"
    /\ UNCHANGED <<ioVars, orch, todo, taken, entry, loc, calls, results, escaped,
                   licVars, capVars, fnVars>>

NextHif == HifNextEntry \/ HifLicense \/ HifSize \/ HifMetrics \/ HifMerge \/ HifReturn

----------------------------------------------------------------------------
(* collect_and_write (collect_ndjson.py) *)

CawFresh ==
    [readme_text |-> <<>>, dataset_url |-> <<>>, hf |-> None, genai |-> EmptyDict,
     dsq |-> EmptyDict, scored |-> None]

InitCaw ==
    /\ orch = "collect_and_write"
    /\ pc = "repos"
    /\ todo \in 0 .. MaxBatch
    /\ taken = 0
    /\ entry = NoEntry
    /\ loc = CawFresh
    /\ calls = <<>>
    /\ results = <<>>
    /\ escaped = None
    /\ repos = <<>>
    /\ env = SilentEnv
    /\ stdout = <<>>
    /\ logfile = <<>>

\* what a repository of the repos list does when analyze_repo meets it
RepoOutcome(mkdtemp, local, clone, api_license, license_file, rmtree) ==
    [module |-> "src/src/analyze_repo.py", mkdtemp |-> mkdtemp, local |-> local, clone |-> clone,
     api_license |-> api_license, license_file |-> license_file,
     history |-> Raise("CalledProcessError"), rmtree |-> rmtree]

RepoOutcomes ==
    { RepoOutcome(FALSE, FALSE, FALSE, S_Unknown, <<>>, TRUE),
      RepoOutcome(TRUE, FALSE, FALSE, S_Unknown, <<>>, TRUE),
      RepoOutcome(TRUE, FALSE, FALSE, S_Unknown, <<>>, FALSE),
      RepoOutcome(TRUE, FALSE, TRUE, L_MIT, <<>>, TRUE),
      RepoOutcome(TRUE, FALSE, TRUE, S_Unknown, L_MIT, TRUE),
      RepoOutcome(TRUE, FALSE, TRUE, S_Unknown, <<>>, FALSE),
      RepoOutcome(TRUE, TRUE, FALSE, S_Unknown, <<>>, TRUE),
      [RepoOutcome(TRUE, FALSE, TRUE, S_Unknown, L_MIT, TRUE)
         EXCEPT !.module = "src/analyze_repo.py"],
      [RepoOutcome(TRUE, FALSE, FALSE, S_Unknown, <<>>, TRUE)
         EXCEPT !.module = "src/analyze_repo.py"] }

\* the strings handed to _extract_model_id and _extract_dataset_id: a bare
\* id, owner/name, a model URL and a dataset URL with further segments,
\* behind commas and blanks and in front of a blank
IdLeads == { <<>>, <<",">>, <<" ">>, <<",", " ">>, <<" ", ",">>, <<",", ",">> }
IdBodies ==
    { <<"m">>, U_model, U_model_url \o <<"/","t","r","e","e","/","m","a","i","n">>,
      U_found \o <<"/","t","r","e","e">> }
IdInputs == { l \o b \o t : l \in IdLeads, b \in IdBodies, t \in { <<>>, <<" ">> } }

\* the settings of LOG_LEVEL and LOG_FILE
Envs ==
    { SilentEnv,
      [LOG_LEVEL |-> Str(<<"1">>), LOG_FILE |-> "writable"],
      [LOG_LEVEL |-> Str(<<"2">>), LOG_FILE |-> "writable"],
      [LOG_LEVEL |-> Str(<<"2">>), LOG_FILE |-> "unwritable"],
      [LOG_LEVEL |-> Str(<<"2">>), LOG_FILE |-> "unset"],
      [LOG_LEVEL |-> Str(<<"x">>), LOG_FILE |-> "writable"] }

MaxRepos == 2

\* collect_and_write called with repos, in any environment
InitCawRepos ==
    /\ orch = "collect_and_write"
    /\ pc = "repos"
    /\ todo \in 0 .. 1
    /\ taken = 0
    /\ entry = NoEntry
    /\ loc = CawFresh
    /\ calls = <<>>
    /\ results = <<>>
    /\ escaped = None
    /\ repos \in SeqsUpTo(RepoOutcomes, MaxRepos)
    /\ env \in Envs
    /\ stdout = <<>>
    /\ logfile = <<>>

\* a plausible slip: the test of the registry prefix without its "not"
CawNormalizeInverted(dataset_url) ==
    LET raw_dataset == Strip(dataset_url) IN
    IF raw_dataset /= <<>> /\ LowerStr(raw_dataset) \in Placeholders THEN <<>>
    ELSE IF raw_dataset /= <<>> /\ StartsWith(raw_dataset, HF_DATASETS_PREFIX) THEN <<>>
    ELSE raw_dataset

\* lines 181-191: placeholders and links outside the registry become ""
CawNormalize(dataset_url) ==
    LET raw_dataset == Strip(dataset_url) IN
    IF raw_dataset /= <<>> /\ LowerStr(raw_dataset) \in Placeholders THEN <<>>
    ELSE IF raw_dataset /= <<>> /\ ~StartsWith(raw_dataset, HF_DATASETS_PREFIX) THEN <<>>
    ELSE raw_dataset

\* the same without the test of line 230: every answer is taken
CawAcceptAny(ds_disc) ==
    LET raw == IF ds_disc.t = "dict" THEN Get(ds_disc, "dataset_url") ELSE None
        discovered == IF Truthy(raw) /\ raw.t = "str" THEN Strip(raw.v) ELSE <<>>
        full == IF discovered /= <<>> /\ ~StartsWith(discovered, HTTP)
                   /\ Contains(discovered, <<"/">>)
                THEN HF_DATASETS_PREFIX \o discovered ELSE discovered
    IN full

\* lines 223-233: what the loop makes of the evaluator's answer
CawAccept(ds_disc) ==
    LET raw == IF ds_disc.t = "dict" THEN Get(ds_disc, "dataset_url") ELSE None
        discovered == IF Truthy(raw) /\ raw.t = "str" THEN Strip(raw.v) ELSE <<>>
        full == IF discovered /= <<>> /\ ~StartsWith(discovered, HTTP)
                   /\ Contains(discovered, <<"/">>)
                THEN HF_DATASETS_PREFIX \o discovered ELSE discovered
    IN IF discovered /= <<>> /\ StartsWith(full, HF_DATASETS_PREFIX) THEN full ELSE <<>>

\* _round2
round2(x) == IF x.t = "float" THEN Round2(x) ELSE x

\* lines 258-271: the evaluator's fields that pass through
CawGenaiKeys == {"ramp_up_time", "performance_claims", "dataset_and_code_score"}

\* a plausible slip: the evaluator's dataset_quality is looked at first
CawDatasetQualityLlmFirst(dsq, genai) ==
    LET lat == Get(genai, "dataset_quality_latency") IN
    IF Get(genai, "dataset_quality") /= None
    THEN [dataset_quality |-> round2(Get(genai, "dataset_quality")),
          dataset_quality_latency |->
              IF lat /= None /\ ~IsRaise(ToInt(lat)) THEN ToInt(lat) ELSE NoKey]
    ELSE IF Get(dsq, "dataset_quality") /= None
    THEN [dataset_quality |-> round2(Get(dsq, "dataset_quality")),
          dataset_quality_latency |->
              IF Get(dsq, "dataset_quality_latency") = None THEN NoKey
              ELSE IF Truthy(Get(dsq, "dataset_quality_latency"))
              THEN ToInt(Get(dsq, "dataset_quality_latency"))
              ELSE Num(0)]
    ELSE [dataset_quality |-> NoKey, dataset_quality_latency |-> NoKey]

\* lines 273-287: the registry's dataset_quality if there is one, else the
\* evaluator's, else neither key
CawDatasetQuality(dsq, genai) ==
    LET lat == Get(genai, "dataset_quality_latency") IN
    IF Get(dsq, "dataset_quality") /= None
    THEN [dataset_quality |-> round2(Get(dsq, "dataset_quality")),
          dataset_quality_latency |->
              IF Get(dsq, "dataset_quality_latency") = None THEN NoKey
              ELSE IF Truthy(Get(dsq, "dataset_quality_latency"))
              THEN ToInt(Get(dsq, "dataset_quality_latency"))
              ELSE Num(0)]
    ELSE IF Get(genai, "dataset_quality") /= None
    THEN [dataset_quality |-> round2(Get(genai, "dataset_quality")),
          dataset_quality_latency |->
              IF lat /= None /\ ~IsRaise(ToInt(lat)) THEN ToInt(lat) ELSE NoKey]
    ELSE [dataset_quality |-> NoKey, dataset_quality_latency |-> NoKey]

\* lines 249-290: the record of one entry, or the exception that leaves
CawRecord(e, l) ==
    LET hf == l.hf
        genai == l.genai
        parts == Split(GetOr(hf, "model_id", Str(e.model_url)).v, "/")
        name == parts[Len(parts)]
        dq == CawDatasetQuality(l.dsq, genai)
        keys == {"name", "category", "dataset_quality", "dataset_quality_latency"}
                \cup CawGenaiKeys \cup {LatencyKey(k) : k \in CawGenaiKeys}
        val(k) ==
            CASE k = "name" -> Str(name)
              [] k = "category" -> Str(S_MODEL)
              [] k \in CawGenaiKeys ->
                    IF Has(genai, k) THEN round2(genai.v[k]) ELSE NoKey
              [] k = "dataset_quality" -> dq.dataset_quality
              [] k = "dataset_quality_latency" -> dq.dataset_quality_latency
              [] OTHER ->
                    IF Has(genai, k) /\ ~IsRaise(ToInt(genai.v[k]))
                    THEN ToInt(genai.v[k]) ELSE NoKey
    IN IF hf.t /= "dict" THEN Raise("AttributeError")
       ELSE MkDict(keys, [k \in keys |-> val(k)])

\* lines 143-155: one pass of the loop over repos (the loop is left when none
\* remains).  The result of analyze_repo is dropped; what it prints goes to
\* standard output, and its exception is caught and logged.
CawRepos ==
    /\ orch = "collect_and_write" /\ pc = "repos"
    /\ IF repos = <<>>
       THEN /\ pc' = "next"
            /\ UNCHANGED <<repos, stdout, logfile>>
       ELSE LET done == analyze_repo_fn(Head(repos)) IN
            /\ repos' = Tail(repos)
            /\ stdout' = stdout \o done.stdout
            /\ logfile' = logfile \o
                  (IF IsRaise(done.result) THEN log("Repo analysis failed", 1, env)
                   ELSE log("Analyzed repo", 2, env))
            /\ pc' = pc
    /\ UNCHANGED <<env, orch, todo, taken, entry, loc, calls, results, escaped,
                   licVars, capVars, fnVars>>

\* lines 167-172: the loop takes the next model
CawNextEntry ==
    /\ orch = "collect_and_write" /\ pc = "next" /\ todo > 0
    /\ \E e \in CawEntries : entry' = e
    /\ todo' = todo - 1
    /\ taken' = taken + 1
    /\ loc' = CawFresh
    /\ calls' = <<>>
    /\ pc' = "readme"
    /\ UNCHANGED <<ioVars, orch, results, escaped, licVars, capVars, fnVars>>

\* lines 173-191: the README, then the dataset link is normalised
CawReadme ==
    /\ orch = "collect_and_write" /\ pc = "readme"
    /\ \E text \in ReadmeTexts :
          loc' = [loc EXCEPT !.readme_text = fetch_model_card_text(entry.model_url, text),
                             !.dataset_url = CawNormalize(entry.dataset_url)]
    /\ logfile' = logfile \o LogAll(
          (IF loc'.readme_text /= <<>> THEN << <<"Fetched README", 2>> >> ELSE <<>>)
          \o (IF Strip(entry.dataset_url) = <<>> THEN <<>>
               ELSE IF LowerStr(Strip(entry.dataset_url)) \in Placeholders
               THEN << <<"Input dataset placeholder detected", 2>> >>
               ELSE IF ~StartsWith(Strip(entry.dataset_url), HF_DATASETS_PREFIX)
               THEN << <<"Non-HF dataset link provided", 2>> >>
               ELSE <<>>), env)
    /\ calls' = Append(calls, "fetch_model_card_text")
    /\ pc' = "hf"
    /\ UNCHANGED <<repos, env, stdout, orch, todo, taken, entry, results, escaped, licVars, capVars, fnVars>>

\* lines 192-196
CawHfMeta ==
    /\ orch = "collect_and_write" /\ pc = "hf"
    /\ \E reachable \in BOOLEAN :
          loc' = [loc EXCEPT !.hf = fetch_model_metrics(entry.model_url, reachable)]
    /\ calls' = Append(calls, "fetch_model_metrics")
    /\ pc' = "genai"
    /\ UNCHANGED <<ioVars, orch, todo, taken, entry, results, escaped, licVars, capVars, fnVars>>

\* lines 198-209: the evaluator's metrics; its exception is caught
CawGenai ==
    /\ orch = "collect_and_write" /\ pc = "genai"
    /\ \E llm \in LlmOutcomes :
          LET m == analyze_metrics(llm)
          IN /\ loc' = [loc EXCEPT !.genai = IF IsRaise(m) \/ ~Truthy(m) THEN EmptyDict ELSE m]
             /\ logfile' = logfile \o
                   (IF IsRaise(m) THEN log("GenAI analysis failed", 1, env) ELSE <<>>)
    /\ calls' = Append(calls, "analyze_metrics")
    /\ pc' = "discover"
    /\ UNCHANGED <<repos, env, stdout, orch, todo, taken, entry, results, escaped, licVars, capVars, fnVars>>

\* lines 211-233: discovery by the evaluator when no dataset link is left
CawDiscover ==
    /\ orch = "collect_and_write" /\ pc = "discover"
    /\ IF loc.dataset_url = <<>>
       THEN /\ \E llm \in DiscoveryOutcomes :
                  LET r == discover_dataset_url_with_genai(llm)
                      ds_disc == IF IsRaise(r) \/ ~Truthy(r) THEN EmptyDict ELSE r
                      raw == Get(ds_disc, "dataset_url")
                      discovered == IF Truthy(raw) /\ raw.t = "str" THEN Strip(raw.v) ELSE <<>>
                  IN /\ loc' = [loc EXCEPT !.dataset_url = CawAccept(ds_disc)]
                     /\ logfile' = logfile \o LogAll(
                           << <<"No dataset URL provided", 2>> >>
                           \o (IF IsRaise(r) THEN << <<"GenAI dataset discovery failed", 1>> >>
                                ELSE <<>>)
                           \o (IF discovered = <<>> THEN <<>>
                                ELSE IF CawAccept(ds_disc) /= <<>>
                                THEN << <<"Using GenAI-discovered dataset URL", 2>> >>
                                ELSE << <<"GenAI discovery returned non-HF dataset URL", 1>> >>),
                           env)
            /\ calls' = Append(calls, "discover_dataset_url_with_genai")
       ELSE UNCHANGED <<loc, calls, logfile>>
    /\ pc' = "fallback"
    /\ UNCHANGED <<repos, env, stdout, orch, todo, taken, entry, results, escaped, licVars, capVars, fnVars>>

\* lines 234-241: discovery from the registry's model metadata
CawFallback ==
    /\ orch = "collect_and_write" /\ pc = "fallback"
    /\ IF loc.dataset_url = <<>>
       THEN /\ \E reg \in ModelAnswers :
                  LET fallback == discover_hf_dataset_url_for_model(entry.model_url, reg)
                  IN /\ loc' = [loc EXCEPT !.dataset_url =
                                   IF fallback /= <<>> THEN fallback ELSE loc.dataset_url]
                     /\ logfile' = logfile \o
                           (IF fallback /= <<>>
                            THEN log("Using HF-discovered dataset URL", 2, env)
                            ELSE log("HF fallback could not find a dataset", 2, env))
            /\ calls' = Append(calls, "discover_hf_dataset_url_for_model")
       ELSE UNCHANGED <<loc, calls, logfile>>
    /\ pc' = "quality"
    /\ UNCHANGED <<repos, env, stdout, orch, todo, taken, entry, results, escaped, licVars, capVars, fnVars>>

\* lines 242-247: the registry's quality of the dataset
CawQuality ==
    /\ orch = "collect_and_write" /\ pc = "quality"
    /\ IF loc.dataset_url /= <<>> /\ StartsWith(loc.dataset_url, HTTP)
       THEN /\ \E reg \in DatasetAnswers, latency \in Latencies :
                  LET r == fetch_dataset_quality(loc.dataset_url, reg, latency)
                  IN loc' = [loc EXCEPT !.dsq = IF Truthy(r) THEN r ELSE EmptyDict,
                                        !.scored = Str(loc.dataset_url)]
            /\ logfile' = logfile \o log("Computing dataset_quality", 2, env)
            /\ calls' = Append(calls, "fetch_dataset_quality")
       ELSE UNCHANGED <<loc, calls, logfile>>
    /\ pc' = "emit"
    /\ UNCHANGED <<repos, env, stdout, orch, todo, taken, entry, results, escaped, licVars, capVars, fnVars>>

\* lines 249-290: the record is built and written
CawEmit ==
    /\ orch = "collect_and_write" /\ pc = "emit"
    /\ LET rec == CawRecord(entry, loc) IN
       IF IsRaise(rec)
       THEN /\ escaped' = rec
            /\ pc' = "raised"
            /\ results' = results
            /\ stdout' = stdout
       ELSE /\ results' = Append(results, rec)
            /\ stdout' = Append(stdout, "NDJSON")
            /\ pc' = "next"
            /\ escaped' = escaped
    /\ UNCHANGED <<repos, env, logfile, orch, todo, taken, entry, loc, calls,
                   licVars, capVars, fnVars>>

\* lines 292-298
CawReturn ==
    /\ orch = "collect_and_write" /\ pc = "next" /\ todo = 0
    /\ logfile' = logfile \o log("Wrote records to stdout", 1, env)
    /\ pc' = "returned"
    /\ UNCHANGED <<repos, env, stdout, orch, todo, taken, entry, loc, calls, results,
                   escaped, licVars, capVars, fnVars>>

NextCaw ==
    \/ CawRepos \/ CawNextEntry \/ CawReadme \/ CawHfMeta \/ CawGenai
    \/ CawDiscover \/ CawFallback \/ CawQuality \/ CawEmit \/ CawReturn

----------------------------------------------------------------------------
(* Operations on the pure functions *)

InitPure ==
    /\ lic_op = "none"
    /\ lic_in = None
    /\ lic_out = None
    /\ cap_in = <<0, 0>>
    /\ cap_out = -1
    /\ fn = "none"
    /\ fn_in = None
    /\ fn_out = None

DoExtractLicense ==
    \E data \in Metadatas :
        /\ lic_op' = "extract_license"
        /\ lic_in' = data
        /\ lic_out' = extract_license(data)
        /\ UNCHANGED <<capVars, fnVars, batchVars>>

DoLicenseCompat ==
    \E model_id \in ModelIds, resp \in Responses :
        /\ lic_op' = "license_compat"
        /\ lic_in' = resp
        /\ lic_out' = license_compat(model_id, resp)
        /\ UNCHANGED <<capVars, fnVars, batchVars>>

DoCompatFromCapacity ==
    \E s \in -1 .. MaxSize, c \in -1 .. MaxCapacity :
        /\ cap_in' = <<s, c>>
        /\ cap_out' = compat_from_capacity(s, c)
        /\ UNCHANGED <<licVars, fnVars, batchVars>>

\* the sizes handed to _compute_size_score, in units of 1,000,000 bytes
ScoredSizes == {50 * s : s \in -1 .. MaxSize}

DoComputeSizeScore ==
    \E size_bytes \in ScoredSizes :
        /\ fn' = "_compute_size_score"
        /\ fn_in' = size_bytes
        /\ fn_out' = compute_size_score(size_bytes)
        /\ UNCHANGED <<licVars, capVars, batchVars>>

DoGetModelFileSizesRun ==
    \E reg \in RegOutcomes, head \in HeadOutcomes, git \in GitOutcomes :
        /\ fn = "none"
        /\ fn' = "get_model_file_sizes_run"
        /\ fn_in' = [reg |-> reg, head |-> head, git |-> git]
        /\ fn_out' = get_model_file_sizes_run(
                        U_model, reg, head,
                        IF IsRaise(git.lfs) THEN git
                        ELSE [git EXCEPT !.lfs =
                                List([i \in DOMAIN git.lfs.v |-> LfsText(git.lfs.v[i])])])
        /\ UNCHANGED <<licVars, capVars, batchVars>>

DoAnalyzeRepo ==
    \E r \in RepoOutcomes :
        /\ fn = "none"
        /\ fn' = "analyze_repo"
        /\ fn_in' = r
        /\ fn_out' = analyze_repo_fn(r)
        /\ UNCHANGED <<licVars, capVars, batchVars>>

\* _extract_model_id and _extract_dataset_id applied once and applied to
\* their own result
DoExtractIds ==
    \E x \in IdInputs :
        /\ fn = "none"
        /\ fn' = "_extract_id"
        /\ fn_in' = x
        /\ fn_out' = [model |-> hf_extract_model_id(x),
                      model_twice |-> hf_extract_model_id(hf_extract_model_id(x)),
                      dataset |-> hf_extract_dataset_id(x),
                      dataset_twice |-> hf_extract_dataset_id(hf_extract_dataset_id(x)),
                      local |-> extract_model_id(x),
                      local_twice |-> extract_model_id(extract_model_id(x))]
        /\ UNCHANGED <<licVars, capVars, batchVars>>

DoGetModelFileSizes ==
    \E reg \in RegOutcomes, head \in HeadOutcomes, lfs \in LfsOutcomes :
        /\ fn = "none"
        /\ fn' = "get_model_file_sizes"
        /\ fn_in' = [reg |-> reg, head |-> head, lfs |-> lfs]
        /\ fn_out' = get_model_file_sizes(
                        U_model, reg, head,
                        IF IsRaise(lfs) THEN lfs
                        ELSE List([i \in DOMAIN lfs.v |-> LfsText(lfs.v[i])]))
        /\ UNCHANGED <<licVars, capVars, batchVars>>

DoParseLlmContent ==
    \E content \in Contents :
        /\ fn = "none"
        /\ fn' = "_parse_llm_content_to_json"
        /\ fn_in' = Str(content)
        /\ fn_out' = parse_llm_content_to_json(Str(content))
        /\ UNCHANGED <<licVars, capVars, batchVars>>

DoFlattenMetrics ==
    \E m \in FlattenInputs :
        /\ fn = "none"
        /\ fn' = "_flatten_metrics"
        /\ fn_in' = m
        /\ fn_out' = flatten_metrics(m)
        /\ UNCHANGED <<licVars, capVars, batchVars>>

DoAnalyzeMetrics ==
    \E llm \in LlmResponses :
        /\ fn = "none"
        /\ fn' = "analyze_metrics"
        /\ fn_in' = llm
        /\ fn_out' = analyze_metrics(llm)
        /\ UNCHANGED <<licVars, capVars, batchVars>>

DoComputeCodeQuality ==
    \E python_files \in {0, 1, 3}, linter \in Linters :
        /\ fn = "none"
        /\ fn' = "compute_code_quality"
        /\ fn_in' = [python_files |-> python_files, linter |-> linter]
        /\ fn_out' = compute_code_quality(python_files, linter)
        /\ UNCHANGED <<licVars, capVars, batchVars>>

DoComputeLocalMetrics ==
    \E history \in Histories, license_str \in {None, Str(L_MIT), Str(L_Apache)},
       weight_mb \in {0, 8192}, linter \in {l \in Linters : l.kind = "start_failed" \/ l.issues = 2} :
        /\ fn = "none"
        /\ fn' = "compute_local_metrics"
        /\ fn_in' = [history |-> history, license_str |-> license_str,
                     weight_mb |-> weight_mb, linter |-> linter]
        /\ fn_out' = compute_local_metrics(
                        IF IsRaise(history) THEN history
                        ELSE List([i \in DOMAIN history.v |-> HistoryText(history.v[i])]),
                        license_str, weight_mb, 3, linter)
        /\ UNCHANGED <<licVars, capVars, batchVars>>

\* handle_input_file lets the exception of open escape, and others (C1)
DoMain ==
    \E repo \in {<<>>, <<U_code>>}, model \in {<<>>, <<U_model>>},
       repos_file \in Files, models_file \in Files,
       url_handler \in {"imported", "ImportError"}, hif_raises \in BOOLEAN :
        /\ fn = "none"
        /\ fn' = "main"
        /\ fn_in' = [repo |-> repo, model |-> model, repos_file |-> repos_file,
                     models_file |-> models_file, url_handler |-> url_handler,
                     hif_raises |-> hif_raises]
        /\ fn_out' = main(repo, model, repos_file, models_file, url_handler,
                          IF models_file = None \/ IsRaise(models_file) THEN Raise("OSError")
                          ELSE IF hif_raises THEN Raise("HTTPError")
                          ELSE read_lines_file(models_file))
        /\ UNCHANGED <<licVars, capVars, batchVars>>

\* One iteration of the loop of handle_input_file (lines 89-274) as a
\* function of the entry, of what the collaborators answer and of what the
\* clock shows around the size stage (time.perf_counter, lines 134 and 183):
\* the record, or the exception that leaves the loop.
HifIteration(e, resp, size, llm, clock) ==
    LET model_id == extract_model_id(e.model_url)
        license_info == get_license_info(model_id, resp, resp.latency)
        raw == GetOr(license_info, "license_latency", Num(0))
        ms == IF IsRaise(ToFloat(raw)) THEN 0 ELSE RoundDiv(ToFloat(raw).v, 1)
        r == HifSizeStage(model_id, size, clock)
        m == analyze_metrics(llm)
    IN IF IsRaise(m) THEN m
       ELSE HifRecord(e, [HifFresh EXCEPT
                !.model_id = model_id,
                !.compat_score = GetOr(license_info, "lgplv21_compat_score", Num(0)),
                !.license_latency = ms,
                !.name = extract_model_name(e.model_url),
                !.size_score = r.size_score,
                !.size_score_latency = r.size_score_latency,
                !.metrics = HifAdoptSize(IF Truthy(m) THEN m ELSE EmptyDict,
                                         r.size_score, r.size_score_latency)])

\* the orchestrator run on one entry, and run again on the same entry with
\* the same answers of every collaborator
DoHifFirstRun ==
    \E e \in HifEntries, resp \in HifResponses, size \in SizeOutcomes,
       llm \in LlmOutcomes, clock \in Latencies :
        /\ fn = "none"
        /\ fn' = "handle_input_file"
        /\ fn_in' = [entry |-> Triple(Strip(e.code_url), Strip(e.dataset_url),
                                      Strip(e.model_url)),
                     resp |-> resp, size |-> size, llm |-> llm]
        /\ fn_out' = <<HifIteration(fn_in'.entry, resp, size, llm, clock)>>
        /\ UNCHANGED <<licVars, capVars, batchVars>>

DoHifSecondRun ==
    \E clock \in Latencies :
        /\ fn = "handle_input_file" /\ Len(fn_out) = 1
        /\ fn_out' = Append(fn_out, HifIteration(fn_in.entry, fn_in.resp, fn_in.size,
                                                 fn_in.llm, clock))
        /\ UNCHANGED <<fn, fn_in, licVars, capVars, batchVars>>

\* the lines handed to parse_triple: a letter, the comma and the blank
MaxLineLen == 5
LineChars == {"a", ",", " "}
Lines == UNION { [1 .. n -> LineChars] : n \in 0 .. MaxLineLen }

DoParseTriple ==
    \E line \in Lines :
        /\ fn = "none"
        /\ fn' = "parse_triple"
        /\ fn_in' = line
        /\ fn_out' = parse_triple(line)
        /\ UNCHANGED <<licVars, capVars, batchVars>>

\* the licenses handed to is_lgpl_compatible of analyze_repo.py
RepoLicenses ==
    { None, Str(<<>>), Str(<<" "," ">>),
      Str(<<"M","I","T">>), Str(<<"m","i","t">>), Str(<<" ","M","I","T"," ">>),
      Str(<<"B","S","D","-","3","-","C","l","a","u","s","e">>),
      Str(<<"b","s","d","-","3","-","c","l","a","u","s","e">>),
      Str(<<"A","p","a","c","h","e","-","2",".","0">>) }

DoRepoLicense ==
    \E license_str \in RepoLicenses :
        /\ fn = "none"
        /\ fn' = "is_lgpl_compatible"
        /\ fn_in' = license_str
        /\ fn_out' = analyze_repo_is_lgpl_compatible(license_str)
        /\ UNCHANGED <<licVars, capVars, batchVars>>

\* the tags handed to _score_tags: lists of tags and empty strings, None and
\* a string
MaxTags == 5
TagLists == UNION { [1 .. n -> {Str(<<"t">>), Str(<<>>)}] : n \in 0 .. MaxTags }
TagInputs == {None, Str(<<"t">>)} \cup {List(l) : l \in TagLists}

DoScoreTags ==
    \E tags \in TagInputs :
        /\ fn = "none"
        /\ fn' = "_score_tags"
        /\ fn_in' = tags
        /\ fn_out' = score_tags(tags)
        /\ UNCHANGED <<licVars, capVars, batchVars>>

Init == InitPure /\ InitIdleBatch

NextLicense == DoExtractLicense \/ DoLicenseCompat
NextSize == DoCompatFromCapacity \/ DoComputeSizeScore \/ DoScoreTags

SpecLicense == Init /\ [][NextLicense]_vars
SpecSize == Init /\ [][NextSize]_vars
NextFn ==
    \/ DoGetModelFileSizes
    \/ DoParseLlmContent \/ DoFlattenMetrics \/ DoAnalyzeMetrics
    \/ DoMain
    \/ DoHifFirstRun \/ DoHifSecondRun
SpecFn == Init /\ [][NextFn]_vars
NextRepo == DoComputeCodeQuality \/ DoComputeLocalMetrics \/ DoRepoLicense
SpecRepo == Init /\ [][NextRepo]_vars
NextSizes == DoGetModelFileSizesRun \/ DoAnalyzeRepo
SpecSizes == Init /\ [][NextSizes]_vars

NextText == DoParseTriple \/ DoExtractIds
SpecText == Init /\ [][NextText]_vars

HifInit == InitPure /\ InitHif
SpecHif == HifInit /\ [][NextHif]_vars
CawInit == InitPure /\ InitCaw
SpecCaw == CawInit /\ [][NextCaw]_vars

CawReposInit == InitPure /\ InitCawRepos
SpecCawRepos == CawReposInit /\ [][NextCaw]_vars

----------------------------------------------------------------------------
(* Properties *)

\* how often a collaborator was called for the current entry
Count(seq, x) == Cardinality({i \in DOMAIN seq : seq[i] = x})

\* the batch call has just emitted the record of `entry`, built from `loc`
Emitted == pc \in {"next", "returned"} /\ taken > 0 /\ Len(results) > 0
LastRecord == results[Len(results)]

\* C1: a batch call lets no exception escape and, once it has returned, has
\* emitted exactly one record per input entry.
C1_BatchIsolation ==
    /\ escaped = None
    /\ pc /= "raised"
    /\ (pc = "returned" => Len(results) = taken)

\* C2: for an entry whose dataset link is no placeholder and starts with the
\* registry's dataset prefix, neither discover_dataset_url_with_genai nor
\* discover_hf_dataset_url_for_model is ever called.
C2_ExplicitUrlSkipsDiscovery ==
    (orch = "collect_and_write" /\ taken > 0
        /\ ~is_placeholder_or_non_hf_dataset(entry.dataset_url))
    => /\ Count(calls, "discover_dataset_url_with_genai") = 0
       /\ Count(calls, "discover_hf_dataset_url_for_model") = 0

\* an entry with an explicit registry dataset link went all the way to its
\* record, and its dataset was scored
C2_Witness ==
    /\ orch = "collect_and_write" /\ Emitted
    /\ entry.dataset_url = U_squad
    /\ Count(calls, "fetch_dataset_quality") = 1
    /\ loc.scored = Str(U_squad)

\* C3: for an entry without a usable dataset link, by the time its record is
\* emitted the evaluator's discovery was called exactly once, the registry
\* discovery at most once and only after it, and a dataset that was found was
\* scored once, after the discovery, under a URL with the registry's dataset
\* prefix.
C3_DiscoveryThenFallback ==
    (Emitted /\ is_placeholder_or_non_hf_dataset(entry.dataset_url))
    => /\ Count(calls, "discover_dataset_url_with_genai") = 1
       /\ Count(calls, "discover_hf_dataset_url_for_model") <= 1
       /\ \A i, j \in DOMAIN calls :
             (calls[i] = "discover_dataset_url_with_genai"
                 /\ calls[j] \in {"discover_hf_dataset_url_for_model",
                                  "fetch_dataset_quality"}) => i < j
       /\ \A i, j \in DOMAIN calls :
             (calls[i] = "discover_hf_dataset_url_for_model"
                 /\ calls[j] = "fetch_dataset_quality") => i < j
       /\ loc.dataset_url /= <<>>
          => /\ Count(calls, "fetch_dataset_quality") = 1
             /\ loc.scored = Str(loc.dataset_url)
             /\ StartsWith(loc.dataset_url, HF_DATASETS_PREFIX)
       /\ loc.dataset_url = <<>> => Count(calls, "fetch_dataset_quality") = 0

\* C4: when no discovery step found a dataset, the record has dataset_quality
\* and it is exactly 0.0.
C4_NoDatasetScoresZero ==
    (orch = "collect_and_write" /\ Emitted /\ loc.dataset_url = <<>>)
    => /\ Has(LastRecord, "dataset_quality")
       /\ LastRecord.v["dataset_quality"] = Flt(0)

ScoreFields ==
    {"bus_factor", "code_quality", "dataset_quality", "ramp_up_time",
     "performance_claims", "dataset_and_code_score"}

\* C6: an emitted record has no hole: each of the six scores is present and
\* not null, and so is its latency field.
C6_NoHoles ==
    Emitted
    => \A k \in ScoreFields :
          /\ Has(LastRecord, k)
          /\ LastRecord.v[k] /= None
          /\ Has(LastRecord, LatencyKey(k))
          /\ LastRecord.v[LatencyKey(k)] /= None

\* The first half of C7 alone: the size_score of a record of
\* handle_input_file has exactly the four canonical devices as keys.
SizeScoreKeys ==
    (orch = "handle_input_file" /\ Emitted)
    => /\ Has(LastRecord, "size_score")
       /\ LastRecord.v["size_score"].t = "dict"
       /\ DOMAIN LastRecord.v["size_score"].v = Devices

\* C7: the size_score of a record of handle_input_file has exactly the four
\* canonical devices as keys, and when the size stage produced no score all
\* four values are 0.
C7_SizeScoreFailsToZero ==
    (orch = "handle_input_file" /\ Emitted)
    => /\ Has(LastRecord, "size_score")
       /\ LastRecord.v["size_score"].t = "dict"
       /\ DOMAIN LastRecord.v["size_score"].v = Devices
       /\ loc.size_score = None
          => \A d \in Devices : LastRecord.v["size_score"].v[d] = Flt(0)

\* a usable license value: a non-empty string
Usable(x) == x.t = "str" /\ x.v /= <<>>

ClaimedLicense(data) ==
    LET top == Get(data, "license")
        card == Get(data, "cardData")
        lic == IF card.t = "dict" THEN Get(card, "license") ELSE None
    IN IF Usable(top) /\ top.v /= S_unknown THEN top
       ELSE IF Usable(lic) THEN lic
       ELSE IF lic.t = "list" /\ Len(lic.v) > 0 /\ Usable(lic.v[1]) THEN lic.v[1]
       ELSE Str(S_unknown)

\* C8: extract_license returns the top-level license when it is a usable
\* value other than "unknown", else the cardData license string or the first
\* element of the cardData license list, and "unknown" when neither is usable.
C8_ExtractLicense ==
    (lic_op = "extract_license" /\ Get(lic_in, "cardData").t \in {"None", "dict"})
    => lic_out = ClaimedLicense(lic_in)

\* The example of C8 alone: license "unknown" with the cardData list
\* ["Apache-2.0", "MIT"] resolves to "Apache-2.0", compatibility 1.
UnknownFallsBackToCardList ==
    (lic_op = "extract_license"
        /\ Get(lic_in, "license") = Str(S_unknown)
        /\ Get(lic_in, "cardData").t = "dict"
        /\ Get(Get(lic_in, "cardData"), "license") = List(<<Str(L_Apache), Str(L_MIT)>>))
    => lic_out = Str(L_Apache) /\ is_lgpl_compatible(lic_out) = Num(1)

\* C9: license_compat returns a dict for every outcome of the fetch; a dict
\* with an error has license "error" and score 0, every failed fetch and
\* every body that is no JSON object gives such a dict, and a dict without an
\* error has a string license and a score of 0 or 1.
C9_NeverRaises ==
    lic_op = "license_compat"
    => /\ lic_out.t = "dict"
       /\ {"model_id", "license", "lgplv21_compat_score"} \subseteq DOMAIN lic_out.v
       /\ Has(lic_out, "error")
          => /\ lic_out.v["license"] = Str(S_error)
             /\ lic_out.v["lgplv21_compat_score"] = Num(0)
             /\ lic_out.v["error"].t = "str"
       /\ (IF lic_in.kind = "ok" THEN lic_in.data.t /= "dict" ELSE TRUE)
          => Has(lic_out, "error")
       /\ ~Has(lic_out, "error")
          => /\ lic_out.v["license"].t = "str"
             /\ lic_out.v["lgplv21_compat_score"] \in {Num(0), Num(1)}

\* the body parsed, but to something that is no JSON object, and the failure
\* dict came back
C9_Witness ==
    /\ lic_op = "license_compat"
    /\ lic_in.kind = "ok" /\ lic_in.data.t = "list"
    /\ lic_out.t = "dict" /\ Has(lic_out, "error")
    /\ lic_out.v["license"] = Str(S_error)

\* the band of s / c, the ratio compared in hundredths
Band(s, c) ==
    IF 100 * s <= 25 * c THEN 100
    ELSE IF 100 * s <= 50 * c THEN 85
    ELSE IF 100 * s <= 100 * c THEN 70
    ELSE IF 100 * s <= 200 * c THEN 40
    ELSE IF 100 * s <= 400 * c THEN 20
    ELSE 0

\* C10: for s > 0 and C > 0 the score is the band of s / C with inclusive
\* edges 0.25, 0.5, 1, 2, 4 (1.00, 0.85, 0.70, 0.40, 0.20, else 0.00), and it
\* is 0 when s <= 0 or C <= 0; no other value is returned.
C10_Bands ==
    cap_out /= -1
    => /\ cap_out \in {100, 85, 70, 40, 20, 0}
       /\ (cap_in[1] <= 0 \/ cap_in[2] <= 0) => cap_out = 0
       /\ (cap_in[1] > 0 /\ cap_in[2] > 0) => cap_out = Band(cap_in[1], cap_in[2])

\* a size on the first band edge: s / C = 0.25 scores 1.00
C10_Witness == cap_in = <<1, 4>> /\ cap_out = 100

\* C11: a model of 500,000,000 bytes, scored against the capacities
\* raspberry_pi = 200,000,000 and jetson_nano = 1,000,000,000 bytes, gets the
\* size score 0.0 for raspberry_pi and 0.70 for jetson_nano.
C11_SizeScoreExample ==
    (fn = "_compute_size_score" /\ fn_in = 500)
    => (fn_out.raspberry_pi = 0 /\ fn_out.jetson_nano = 70)

\* the files of a get_model_file_sizes call whose size the registry and
\* the HEAD probe left out and that the git-lfs listing names, in the format
\* git-lfs prints, on its last line for that file
LfsDecided(i) ==
    /\ fn = "get_model_file_sizes"
    /\ ~IsRaise(fn_in.reg) /\ ~IsRaise(fn_in.lfs)
    /\ fn_in.head = None
    /\ i \in DOMAIN fn_in.reg.v
    /\ ~Truthy(GetOr(fn_in.reg.v[i], "size", Num(0)))
    /\ \E j \in DOMAIN fn_in.lfs.v :
          /\ fn_in.lfs.v[j].fname = Get(fn_in.reg.v[i], "rfilename").v
          /\ fn_in.lfs.v[j].format = "lfs"
          /\ \A h \in DOMAIN fn_in.lfs.v :
                h > j => fn_in.lfs.v[h].fname /= fn_in.lfs.v[j].fname

LfsClaimedSize(i) ==
    LET j == CHOOSE j \in DOMAIN fn_in.lfs.v :
                /\ fn_in.lfs.v[j].fname = Get(fn_in.reg.v[i], "rfilename").v
                /\ \A h \in DOMAIN fn_in.lfs.v :
                      h > j => fn_in.lfs.v[h].fname /= fn_in.lfs.v[j].fname
        a == fn_in.lfs.v[j].amount
    IN (a.num * Pow(1024, a.k)) \div a.den

\* C12: a file whose size is missing from the registry listing and from the
\* HEAD probe and that the git-lfs listing shows as
\* <hash> - <filename> (<size> <unit>) gets the size int(size * 1024^k),
\* k = 0, 1, 2, 3 for B, KB, MB, GB, and that size is part of
\* total_size_bytes.
C12_LfsFallbackSize ==
    \A i \in 1 .. 2 :
        LfsDecided(i)
        => /\ Get(fn_out, "files").v[i].size = Num(LfsClaimedSize(i))
           /\ Get(fn_out, "total_size_bytes").v >= LfsClaimedSize(i)

\* the same for a listing without the parentheses, which the code does read
LfsBareSizeIsRead ==
    (/\ fn = "get_model_file_sizes"
     /\ ~IsRaise(fn_in.reg) /\ ~IsRaise(fn_in.lfs)
     /\ fn_in.head = None
     /\ Len(fn_in.reg.v) >= 1 /\ Len(fn_in.lfs.v) = 1
     /\ ~Truthy(GetOr(fn_in.reg.v[1], "size", Num(0)))
     /\ fn_in.lfs.v[1].fname = Get(fn_in.reg.v[1], "rfilename").v
     /\ fn_in.lfs.v[1].format = "bare")
    => Get(fn_out, "files").v[1].size
          = Num((fn_in.lfs.v[1].amount.num * Pow(1024, fn_in.lfs.v[1].amount.k))
                \div fn_in.lfs.v[1].amount.den)

\* the texts of an analyze_metrics call that hold no JSON at all, only the
\* start of an object, or an array and no object
NoJsonIn(q) == \A i \in DOMAIN q : q[i] \in {PROSE, FENCE}
UnparsableIn(q) ==
    /\ \E i \in DOMAIN q : q[i] = LBRACE
    /\ \A i \in DOMAIN q : q[i] \in {PROSE, LBRACE, MEMBER}
NoObjectIn(q) ==
    /\ \E i \in DOMAIN q : q[i] = ARRAY
    /\ \A i \in DOMAIN q : q[i] \in {PROSE, ARRAY, FENCE_JSON, FENCE}

\* C13: analyze_metrics returns {} and does not raise when the response has
\* no choices or no content, when the content is no string, when the text
\* holds no JSON, when its JSON cannot be parsed and when the parsed JSON is
\* no object.
C13_MalformedGivesEmpty ==
    (/\ fn = "analyze_metrics"
     /\ \/ fn_in.kind = "no_content"
        \/ /\ fn_in.kind = "content"
           /\ \/ fn_in.content.t /= "str"
              \/ NoJsonIn(fn_in.content.v)
              \/ UnparsableIn(fn_in.content.v)
              \/ NoObjectIn(fn_in.content.v))
    => fn_out = EmptyDict

\* the cases of C13 that do hold: no content, no JSON, unparsable JSON
MalformedTextGivesEmpty ==
    (/\ fn = "analyze_metrics"
     /\ \/ fn_in.kind = "no_content"
        \/ /\ fn_in.kind = "content"
           /\ fn_in.content.t = "str"
           /\ \/ NoJsonIn(fn_in.content.v)
              \/ UnparsableIn(fn_in.content.v))
    => fn_out = EmptyDict

ExpectedKeys == MetricNames \cup {LatencyKey(k) : k \in MetricNames}

\* C14: the parsed LLM result holds only the supported metric names and
\* their _latency fields; every other key of the LLM's JSON is dropped.
C14_OnlyExpectedKeys ==
    (fn \in {"_flatten_metrics", "analyze_metrics"} /\ fn_out.t = "dict")
    => DOMAIN fn_out.v \subseteq ExpectedKeys

\* C15: in the parsed LLM result every latency field is a non-negative
\* integer and every score field a float; a value that cannot be coerced is
\* absent.
C15_CoercedOrAbsent ==
    (fn = "_flatten_metrics" /\ fn_out.t = "dict")
    => \A k \in DOMAIN fn_out.v :
          IF IsLatencyKey(k)
          THEN fn_out.v[k].t = "int" /\ fn_out.v[k].v >= 0
          ELSE fn_out.v[k].t = "float"

\* the fields of a nested {"score", "latency"} value are coerced or absent
NestedCoercedOrAbsent ==
    (fn = "_flatten_metrics" /\ Has(fn_in, "performance_claims")
     /\ fn_in.v["performance_claims"].t = "dict")
    => /\ Has(fn_out, "performance_claims")
            => fn_out.v["performance_claims"].t = "float"
       /\ Has(fn_out, "performance_claims_latency")
            => fn_out.v["performance_claims_latency"].t = "int"
       /\ Get(fn_in.v["performance_claims"], "score") = Str(S_fast)
            => ~Has(fn_out, "performance_claims")

\* the text of a _parse_llm_content_to_json call has no json fence and ends
\* with a complete object that starts at position p
EndsWithObjectAt(p) ==
    /\ fn = "_parse_llm_content_to_json"
    /\ \A i \in DOMAIN fn_in.v : fn_in.v[i] /= FENCE_JSON
    /\ p \in DOMAIN fn_in.v /\ p < Len(fn_in.v)
    /\ fn_in.v[p] = LBRACE /\ fn_in.v[Len(fn_in.v)] = RBRACE
    /\ \A i \in (p + 1) .. (Len(fn_in.v) - 1) : fn_in.v[i] = MEMBER

LastObject(p) ==
    IF p + 1 = Len(fn_in.v) THEN EmptyDict
    ELSE Dict([k \in {"ramp_up_time"} |-> Flt(600)])

\* C16: without a fenced json block, _parse_llm_content_to_json parses the
\* last top-level {...} object of the text, also when the text before it
\* holds another brace or an earlier complete object.
C16_LastObjectParsed ==
    \A p \in 1 .. MaxTokens : EndsWithObjectAt(p) => fn_out = LastObject(p)

\* it does so when the text before the object holds no brace
ObjectAfterProseParsed ==
    \A p \in 1 .. MaxTokens :
        (EndsWithObjectAt(p) /\ \A i \in 1 .. (p - 1) : fn_in.v[i] \in {PROSE, ARRAY, FENCE})
        => fn_out = LastObject(p)

\* C17: compute_code_quality returns clamp(1 - (issues / max(pythonFiles, 1))
\* / 150, 0, 1) when the linter ran and reported issue lines, 0.0 when the
\* linter exited with an error and no output, and the neutral 0.5 only when
\* the linter could not be started.  (The score is held in thousandths and
\* may differ from the quotient by less than one of them.)
C17_CodeQualityScore ==
    fn = "compute_code_quality"
    => LET n == IF fn_in.python_files > 1 THEN fn_in.python_files ELSE 1
           linter == fn_in.linter
       IN /\ (linter.kind = "ran" /\ linter.issues > 0)
             => IF linter.issues >= 150 * n THEN fn_out = Flt(0)
                ELSE /\ 150 * n * fn_out.v > 1000 * (150 * n - linter.issues) - 150 * n
                     /\ 150 * n * fn_out.v < 1000 * (150 * n - linter.issues) + 150 * n
          /\ (linter.kind = "ran" /\ linter.returncode = 1 /\ linter.issues = 0)
             => fn_out = Flt(0)
          /\ fn_out = Flt(500) => linter.kind = "start_failed"

\* the history of a compute_local_metrics call could not be read, names at
\* most one contributor, or counts no commit at all
NoBusFactor ==
    /\ fn = "compute_local_metrics"
    /\ \/ IsRaise(fn_in.history)
       \/ Len(fn_in.history.v) <= 1
       \/ \A i \in DOMAIN fn_in.history.v : fn_in.history.v[i].count = <<"0">>

\* C18: compute_local_metrics returns bus_factor exactly 0.0 when the
\* history has at most one contributor, when it counts no commit and when
\* reading it fails; it does not raise then, and still returns the code
\* quality, size and license values.
C18_BusFactorZero ==
    NoBusFactor
    => /\ fn_out.t = "dict"
       /\ DOMAIN fn_out.v = {"bus_factor", "code_quality", "license", "size"}
       /\ fn_out.v["bus_factor"] = Flt(0)
       /\ fn_out.v["code_quality"].t = "float"
       /\ fn_out.v["size"] = Flt(IF fn_in.weight_mb = 8192 THEN 500 ELSE 0)
       /\ fn_out.v["license"] = Num(IF fn_in.license_str = Str(L_MIT) THEN 1 ELSE 0)

C18_Witness ==
    /\ fn = "compute_local_metrics"
    /\ IsRaise(fn_in.history)
    /\ fn_in.weight_mb = 8192 /\ fn_in.license_str = Str(L_MIT)
    /\ fn_out.t = "dict"
    /\ fn_out.v["bus_factor"] = Flt(0) /\ fn_out.v["size"] = Flt(500)

\* two contributors with commits do get a bus factor
SharedHistoryScores ==
    (/\ fn = "compute_local_metrics" /\ ~IsRaise(fn_in.history)
     /\ Len(fn_in.history.v) = 2
     /\ \A i \in 1 .. 2 : fn_in.history.v[i].tab /\ fn_in.history.v[i].count \in {<<"3">>, <<"5">>})
    => fn_out.v["bus_factor"].v >= 954

\* the entries a main call could read: the options, and the lines of the
\* files that are neither blank nor comments
EntryLines(f) ==
    IF f = None \/ IsRaise(f) THEN 0
    ELSE Cardinality({i \in DOMAIN f.v : f.v[i] = U_model})
EntriesRead ==
    Len(fn_in.repo) + Len(fn_in.model)
    + EntryLines(fn_in.repos_file) + EntryLines(fn_in.models_file)

\* C19: main returns a non-zero exit code whenever no entry could be read at
\* all (no repos or models given, the models file missing or unreadable, the
\* models file without entries); it returns 0 only when at least one entry
\* was read.
C19_ExitCode ==
    (fn = "main" /\ EntriesRead = 0) => fn_out /= Num(0)

\* without --models-file the exit code is 2 when nothing is given
NothingGivenIsTwo ==
    (fn = "main" /\ fn_in.models_file = None /\ fn_in.repos_file = None
     /\ fn_in.repo = <<>> /\ fn_in.model = <<>>)
    => fn_out = Num(2)

\* the orchestrator has been run twice on one entry, both runs emitted
TwoRecords ==
    /\ fn = "handle_input_file" /\ Len(fn_out) = 2
    /\ ~IsRaise(fn_out[1]) /\ ~IsRaise(fn_out[2])

\* C20: two runs of the orchestrator on the same entry, every external call
\* answering the same both times, produce two identical records, field by
\* field, every _latency field included.
C20_SameRecordTwice ==
    (fn = "handle_input_file" /\ Len(fn_out) = 2) => fn_out[1] = fn_out[2]

\* the two records agree on every field but size_score_latency
SameButSizeLatency ==
    TwoRecords
    => /\ DOMAIN fn_out[1].v = DOMAIN fn_out[2].v
       /\ \A k \in DOMAIN fn_out[1].v \ {"size_score_latency"} :
             fn_out[1].v[k] = fn_out[2].v[k]

\* the number of commas of a line, and what follows its second comma
Commas(line) == Len(Split(line, ",")) - 1
RECURSIVE AfterCommas(_, _)
AfterCommas(line, n) ==
    IF n = 0 THEN line
    ELSE IF line = <<>> THEN <<>>
    ELSE AfterCommas(Tail(line), IF Head(line) = "," THEN n - 1 ELSE n)
Field(line, i) == Strip(Split(line, ",")[i])

\* C21: parse_triple returns three trimmed fields for every line: no comma
\* gives ('', '', token), one comma (first, second, ''), and with more than
\* two commas the first two fields are kept and everything after the second
\* comma, commas included, is model_ref.
C21_ParseTriple ==
    fn = "parse_triple" =>
        /\ Len(fn_out) = 3
        /\ \A i \in 1 .. 3 : Strip(fn_out[i]) = fn_out[i]
        /\ Commas(fn_in) = 0 => fn_out = << <<>>, <<>>, Strip(fn_in) >>
        /\ Commas(fn_in) = 1 => fn_out = <<Field(fn_in, 1), Field(fn_in, 2), <<>> >>
        /\ Commas(fn_in) > 2 =>
              fn_out = <<Field(fn_in, 1), Field(fn_in, 2), Strip(AfterCommas(fn_in, 2))>>

\* what holds of every line: the folded model_ref is the text after the
\* second comma whenever no blank stands next to one of its commas
BlankAtComma(s) ==
    \E i \in 1 .. Len(s) - 1 :
        \/ s[i] = " " /\ s[i + 1] = ","
        \/ s[i] = "," /\ s[i + 1] = " "
FoldKeepsPlainText ==
    fn = "parse_triple" /\ Commas(fn_in) > 2 /\ ~BlankAtComma(AfterCommas(fn_in, 2))
        => fn_out[3] = Strip(AfterCommas(fn_in, 2))
FoldedLine ==
    fn = "parse_triple" /\ Commas(fn_in) > 2 /\ fn_out[3] /= <<>>

\* a license that, trimmed and compared without regard to case, is one of
\* the compatible identifiers
ListedLicense(license_str) ==
    /\ license_str.t = "str"
    /\ \E c \in compatible_licenses : LowerStr(Strip(license_str.v)) = LowerStr(c)

\* C22: is_lgpl_compatible of analyze_repo.py returns 1 exactly when the
\* license, trimmed and compared case-insensitively, is in the compatible
\* set, and 0 for None, the empty string and every unlisted license.
C22_RepoLicenseScore ==
    fn = "is_lgpl_compatible" =>
        fn_out = IF ListedLicense(fn_in) THEN Num(1) ELSE Num(0)

\* what holds: an identifier written exactly as in the list scores 1, and
\* None, the empty string and unlisted licenses score 0
ExactLicenseScores ==
    fn = "is_lgpl_compatible" =>
        /\ (fn_in.t = "str" /\ fn_in.v \in compatible_licenses) => fn_out = Num(1)
        /\ ~ListedLicense(fn_in) => fn_out = Num(0)

\* the number of entries of a tag list that are not falsy
MeaningfulTags(tags) == Len(SelectSeq(tags.v, Truthy))

\* C23: _score_tags, counted after the falsy entries are removed, is 0 for
\* 0 tags, 0.5 for 1 or 2, 0.8 for 3, 0.9 for 4 and 1.0 for 5 or more, and 0
\* for an input that is no list (scores in thousandths).
C23_TagScore ==
    fn = "_score_tags" =>
        fn_out = IF fn_in.t /= "list" THEN 0
                 ELSE CASE MeaningfulTags(fn_in) = 0 -> 0
                        [] MeaningfulTags(fn_in) \in {1, 2} -> 500
                        [] MeaningfulTags(fn_in) = 3 -> 800
                        [] MeaningfulTags(fn_in) = 4 -> 900
                        [] OTHER -> 1000

\* what holds: every band but that of four tags is as stated
TagScoreButFour ==
    fn = "_score_tags" /\ ~(fn_in.t = "list" /\ MeaningfulTags(fn_in) = 4) =>
        fn_out = IF fn_in.t /= "list" THEN 0
                 ELSE CASE MeaningfulTags(fn_in) = 0 -> 0
                        [] MeaningfulTags(fn_in) \in {1, 2} -> 500
                        [] MeaningfulTags(fn_in) = 3 -> 800
                        [] OTHER -> 1000

\* C24: during collect_and_write standard output holds the NDJSON records
\* only, one line per model entry whose record was written: the diagnostics
\* and the summary go to LOG_FILE, and the analysis of the repos writes
\* nothing to standard output.
C24_StdoutIsNdjson ==
    orch = "collect_and_write" =>
        /\ Len(stdout) = Len(results)
        /\ \A i \in DOMAIN stdout : stdout[i] = "NDJSON"

\* what holds: every record written is one line of standard output
\* (C24_StdoutIsNdjson itself holds of the calls without repos, SpecCaw)
RecordLinesMatch ==
    orch = "collect_and_write" =>
        Len(SelectSeq(stdout, LAMBDA l : l = "NDJSON")) = Len(results)

\* the stage of the per-entry state machine a collaborator call belongs to
\* (Normalize is 1, Merge 8, Emit 9; they call no collaborator)
StageOf(c) ==
    CASE c = "get_license_info" -> 2
      [] c \in {"get_model_file_sizes", "calculate_size_metric"} -> 3
      [] c = "fetch_model_card_text" -> 4
      [] c = "analyze_metrics" -> 5
      [] c \in {"discover_dataset_url_with_genai",
                "discover_hf_dataset_url_for_model"} -> 6
      [] c = "fetch_dataset_quality" -> 7
      [] OTHER -> 0
StagesInOrder ==
    \A i, j \in DOMAIN calls :
        (i < j /\ StageOf(calls[i]) > 0 /\ StageOf(calls[j]) > 0)
            => StageOf(calls[i]) <= StageOf(calls[j])

\* C25: within one entry the orchestrator runs its stages in the order
\* Normalize, FetchLicense, FetchOrDeriveSize, FetchReadme, InvokeLLMMetrics,
\* ResolveDataset, ScoreDataset, Merge, Emit; in particular the README of the
\* entry has been fetched when the LLM metrics call is made.
C25_StageOrder ==
    /\ StagesInOrder
    /\ \A j \in DOMAIN calls :
          calls[j] = "analyze_metrics"
              => \E i \in 1 .. j - 1 : calls[i] = "fetch_model_card_text"

----------------------------------------------------------------------------
(* get_model_file_sizes: the requests of the size chain *)

\* the size the registry listing gives a file is absent, null or zero
ListingSizeMissing(file) ==
    ~Has(file, "size") \/ Get(file, "size") \in {None, Num(0)}

\* C26: get_model_file_sizes sends the HEAD request for a file only if the
\* listing gives it no size or size zero, and runs the git clone and the LFS
\* listing only if some named file has no size after the listing and the
\* HEAD request; when every file is listed with a positive size there is no
\* HEAD request and no clone.
C26_ProbesOnlyWhenNeeded ==
    (fn = "get_model_file_sizes_run" /\ ~IsRaise(fn_in.reg)) =>
        LET siblings == fn_in.reg.v IN
        /\ \A i \in fn_out.head_requests : ListingSizeMissing(siblings[i])
        /\ fn_out.lfs_listing => fn_out.clone
        /\ fn_out.clone =>
              \E i \in DOMAIN siblings :
                  /\ Truthy(Get(siblings[i], "rfilename"))
                  /\ ListingSizeMissing(siblings[i])
                  /\ fn_in.head = None
        /\ (\A i \in DOMAIN siblings :
                Get(siblings[i], "size").t = "int" /\ Get(siblings[i], "size").v > 0)
              => (fn_out.head_requests = {} /\ ~fn_out.clone)

\* a call that probes one file and, the probe failing, clones the repository
ProbedThenCloned ==
    /\ fn = "get_model_file_sizes_run"
    /\ fn_out.head_requests /= {}
    /\ fn_out.clone
    /\ fn_out.lfs_listing
    /\ \E i \in DOMAIN fn_in.reg.v : i \notin fn_out.head_requests

----------------------------------------------------------------------------
(* The temporary directories of get_model_file_sizes and analyze_repo *)

\* the listing and the HEAD requests of the call gave some file a size
SizesCollected ==
    /\ ~IsRaise(fn_in.reg)
    /\ \E i \in DOMAIN fn_in.reg.v : Truthy(ProbedSize(fn_in.reg.v[i], fn_in.head))

\* C27: when get_model_file_sizes or analyze_repo returns, the temporary
\* directory it made is gone, whether the clone, the LFS listing or the
\* parsing failed or not, and a failure of the size fallback leaves the
\* sizes already collected in the result.
C27_TempDirsRemoved ==
    /\ fn = "get_model_file_sizes_run" =>
          /\ fn_out.temp_dirs = {}
          /\ ~IsRaise(fn_in.reg) => ~Has(fn_out.result, "error")
    /\ fn = "analyze_repo" => fn_out.temp_dirs = {}

\* the same when every removal that is attempted succeeds
RemovedWhenRmtreeWorks ==
    /\ (fn = "get_model_file_sizes_run" /\ fn_in.git.rmtree) =>
          /\ fn_out.temp_dirs = {}
          /\ ~IsRaise(fn_in.reg) => ~Has(fn_out.result, "error")
    /\ (fn = "analyze_repo" /\ fn_in.rmtree) => fn_out.temp_dirs = {}

\* a call whose listing gave sizes, whose fallback ran, and whose result is
\* the error of rmtree
SizesDiscardedByCleanup ==
    /\ fn = "get_model_file_sizes_run"
    /\ SizesCollected
    /\ fn_out.clone
    /\ Has(fn_out.result, "error")
    /\ fn_out.temp_dirs /= {}

----------------------------------------------------------------------------
(* get_model_file_sizes: the total and the files *)

\* the sum of the size values of a files list; a null size adds nothing
RECURSIVE ListedTotal(_)
ListedTotal(files) ==
    IF files = <<>> THEN 0
    ELSE (IF Head(files).size.t = "int" THEN Head(files).size.v ELSE 0)
         + ListedTotal(Tail(files))

\* file i of the call got no size from the listing, from the HEAD request
\* or from the LFS listing
FailedAllSteps(i) ==
    LET file == fn_in.reg.v[i] IN
    /\ ListingSizeMissing(file)
    /\ fn_in.head = None
    /\ \/ ~fn_out.lfs_listing
       \/ IsRaise(fn_in.git.lfs)
       \/ Get(file, "rfilename").t /= "str"
       \/ \A l \in DOMAIN fn_in.git.lfs.v :
             \/ fn_in.git.lfs.v[l].fname /= Get(file, "rfilename").v
             \/ fn_in.git.lfs.v[l].format /= "bare"

FileWithoutSize ==
    /\ fn = "get_model_file_sizes_run"
    /\ ~Has(fn_out.result, "error")
    /\ fn_out.clone
    /\ \E i \in DOMAIN fn_in.reg.v :
          FailedAllSteps(i) /\ Get(fn_out.result, "files").v[i].size = Num(0)

----------------------------------------------------------------------------
(* collect_and_write: the URL handed to fetch_dataset_quality *)

\* the dataset of the entry is a placeholder or something other than a URL
\* of the registry's datasets
EntryDatasetUnusable ==
    /\ entry.dataset_url /= <<>>
    /\ ~StartsWith(Strip(entry.dataset_url), HF_DATASETS_PREFIX)

\* C29: every URL collect_and_write hands to fetch_dataset_quality starts
\* with https://huggingface.co/datasets/, whether it came from the entry,
\* from the evaluator or from the registry's model metadata; a placeholder, a
\* URL outside the registry and a bare word of the evaluator are never handed
\* to it.
C29_ScoredUrlIsRegistryUrl ==
    orch = "collect_and_write" =>
        /\ (\E i \in DOMAIN calls : calls[i] = "fetch_dataset_quality") <=> (loc.scored /= None)
        /\ loc.scored /= None =>
              /\ StartsWith(loc.scored.v, HF_DATASETS_PREFIX)
              /\ loc.scored.v \notin {U_NA, U_other, U_word}
              /\ EntryDatasetUnusable => loc.scored.v /= Strip(entry.dataset_url)

\* an entry whose dataset is a placeholder or a foreign URL, and whose
\* scored URL was discovered
UnusableDatasetReplaced ==
    /\ orch = "collect_and_write"
    /\ EntryDatasetUnusable
    /\ pc = "emit"
    /\ loc.scored /= None
    /\ \E i \in DOMAIN calls : calls[i] = "discover_hf_dataset_url_for_model"

----------------------------------------------------------------------------
(* _extract_model_id and _extract_dataset_id applied twice *)

\* C30: _extract_model_id applied to its own result gives that result again,
\* and so does _extract_dataset_id, for a bare id, for owner/name, for a URL
\* of the registry with further segments, behind leading commas and between
\* blanks.
C30_ExtractIdIdempotent ==
    fn = "_extract_id" =>
        /\ fn_out.model_twice = fn_out.model
        /\ fn_out.dataset_twice = fn_out.dataset

\* the same for the strings where no blank follows a leading comma, and for
\* extract_model_id of handle_input_file on all of them
IdempotentWithoutBlankAfterComma ==
    fn = "_extract_id" =>
        /\ fn_out.local_twice = fn_out.local
        /\ LStripComma(Strip(fn_in)) = Strip(LStripComma(Strip(fn_in))) =>
              /\ fn_out.model_twice = fn_out.model
              /\ fn_out.dataset_twice = fn_out.dataset

\* a comma, a blank and an id: the first result keeps the blank
BlankKeptAfterComma ==
    /\ fn = "_extract_id"
    /\ fn_in = <<",", " ">> \o U_model
    /\ fn_out.model = <<" ">> \o U_model
    /\ fn_out.model_twice = U_model

=============================================================================
